---- MODULE Spec2Model ----
(***************************************************************************)
(* A model of the CMIT protocol engine: the message codec, the wire        *)
(* framing, the client connection state machine (cmit/client.py) and the   *)
(* server request handler (cmit/server.py).                                *)
(*                                                                         *)
(* Text is a sequence of characters, each a one-character string; the few  *)
(* non-ASCII characters the model uses are named by code point ("U+E9").   *)
(* A byte stream is a sequence of stream elements: Ch(b) is one byte,      *)
(* B64(j) the base64 text of the JSON value j, Pad(n) a run of n filler    *)
(* bytes (used to build lines longer than MAXLINE).                        *)
(***************************************************************************)
EXTENDS Integers, Sequences, FiniteSets, TLC

VARIABLES
    state,      \* CMITConnection.__state
    sock,       \* CMITConnection.sock: 0 is None, else the socket's number
    response,   \* CMITConnection.__response: 0 is None
    socks,      \* every socket the connection has created, by number
    last,       \* the last call on the connection and how it ended
    srv,        \* one server-side connection: request in, handler result, reply as read
    codec,      \* one message on its way through the codec
    session,    \* one Session: its adapters, their pooled connections, the last call
    tasks,      \* one serial server with TaskHandler: server.task_router, the last exchange
    threads,    \* one threading server: the handler of each connection, step by step
    workers     \* one threading server with TaskHandler: server.task_router, the list
                \* objects, and each thread's place in get_task_queue

vars == <<state, sock, response, socks, last, srv, codec, session, tasks, threads, workers>>

-----------------------------------------------------------------------------
(* Bounds of the model *)

\* sockets one connection may create in a run
MaxSocks == 2

\* adapters a session may mount, connections its adapters may create in a run
NumAdapters == 2
MaxConns == 3

\* connections the requests of a session may create in a run
MaxRouted == 1

\* connections the adapters may have created before a send under an id
MaxExchangeConns == 2

\* sends one pooled connection may carry in a run
MaxSends == 2

\* requests the serial server handles in a run
MaxTasks == 4

\* connections the threading server handles at once
NumThreads == 2

\* connections the threading server with TaskHandler accepts in a run
MaxAccepted == 4

-----------------------------------------------------------------------------
(* Program constants *)

MAXLINE == 65536

\* length in bytes taken for one base64 message blob (well under MAXLINE)
B64Len == 64

CS_IDLE == "Idle"
CS_REQ_STARTED == "Request-Started"
CS_REQ_SENT == "Request-Sent"

UNKNOWN == "UNKNOWN"

-----------------------------------------------------------------------------
(* Characters and text *)

Whitespace == {" ", "\t", "\n", "\r", "\f"}

Digits == <<"0", "1", "2", "3", "4", "5", "6", "7", "8", "9">>

IsDigit(c) == \E i \in 1..10 : Digits[i] = c

DigitVal(c) == (CHOOSE i \in 1..10 : Digits[i] = c) - 1

LowerCase == <<"a", "b", "c", "d", "e", "f", "g", "h", "i", "j", "k", "l", "m",
               "n", "o", "p", "q", "r", "s", "t", "u", "v", "w", "x", "y", "z">>

UpperCase == <<"A", "B", "C", "D", "E", "F", "G", "H", "I", "J", "K", "L", "M",
               "N", "O", "P", "Q", "R", "S", "T", "U", "V", "W", "X", "Y", "Z">>

\* str.upper(), on the characters of the model
Upper(s) ==
    [i \in 1..Len(s) |->
        IF \E k \in 1..26 : LowerCase[k] = s[i]
        THEN UpperCase[CHOOSE k \in 1..26 : LowerCase[k] = s[i]]
        ELSE s[i]]

StartsWith(s, p) == Len(s) >= Len(p) /\ SubSeq(s, 1, Len(p)) = p

RECURSIVE LStrip(_)
LStrip(s) == IF s # <<>> /\ Head(s) \in Whitespace THEN LStrip(Tail(s)) ELSE s

RECURSIVE RStrip(_, _)
\* str.rstrip(chars)
RStrip(s, chars) ==
    IF s # <<>> /\ s[Len(s)] \in chars THEN RStrip(SubSeq(s, 1, Len(s) - 1), chars) ELSE s

\* str.strip()
Strip(s) == RStrip(LStrip(s), Whitespace)

RECURSIVE FirstIn(_, _, _)
\* index of the first element of s from i on that is in set, Len(s)+1 when none
FirstIn(s, set, i) ==
    IF i > Len(s) THEN i ELSE IF s[i] \in set THEN i ELSE FirstIn(s, set, i + 1)

RECURSIVE SplitWs(_, _)
\* str.split(None, maxsplit)
SplitWs(s, maxsplit) ==
    LET t == LStrip(s) IN
    IF t = <<>> THEN <<>>
    ELSE IF maxsplit = 0 THEN <<t>>
    ELSE LET k == FirstIn(t, Whitespace, 1) IN
         <<SubSeq(t, 1, k - 1)>> \o SplitWs(SubSeq(t, k, Len(t)), maxsplit - 1)

RECURSIVE SplitOn(_, _, _)
\* str.split(sep, maxsplit) for a one-character sep; maxsplit -1 is no limit
SplitOn(s, sep, maxsplit) ==
    LET k == FirstIn(s, {sep}, 1) IN
    IF maxsplit = 0 \/ k > Len(s) THEN <<s>>
    ELSE <<SubSeq(s, 1, k - 1)>> \o SplitOn(SubSeq(s, k + 1, Len(s)), sep, maxsplit - 1)

RECURSIVE ToInt(_)
\* int() of a string of digits
ToInt(s) == IF s = <<>> THEN 0 ELSE 10 * ToInt(SubSeq(s, 1, Len(s) - 1)) + DigitVal(s[Len(s)])

AllDigits(s) == s # <<>> /\ \A i \in 1..Len(s) : IsDigit(s[i])

\* "%d" % n for the three-digit codes of the protocol
Fmt3(n) == <<Digits[(n \div 100) + 1], Digits[((n \div 10) % 10) + 1], Digits[(n % 10) + 1]>>

-----------------------------------------------------------------------------
(* Encodings.  Characters outside ASCII, and the bytes they encode to.     *)

WideChars == {"U+20AC"}                    \* not encodable in Latin-1
HighChars == {"U+E9", "U+C3", "U+A9"}      \* Latin-1, not ASCII
HighBytes == {"xE9", "xC3", "xA9"}

Latin1Byte(c) ==
    CASE c = "U+E9" -> "xE9" [] c = "U+C3" -> "xC3" [] c = "U+A9" -> "xA9" [] OTHER -> c

Latin1Char(b) ==
    CASE b = "xE9" -> "U+E9" [] b = "xC3" -> "U+C3" [] b = "xA9" -> "U+A9" [] OTHER -> b

\* utils.encode: str.encode('latin-1'); exc is set when a character has no Latin-1 byte
encode(s) ==
    IF \E i \in 1..Len(s) : s[i] \in WideChars
    THEN [exc |-> "UnicodeEncodeError", b |-> <<>>]
    ELSE [exc |-> "none", b |-> [i \in 1..Len(s) |-> Latin1Byte(s[i])]]

\* str(b, 'latin-1'): every byte is a character
DecodeLatin1(b) == [i \in 1..Len(b) |-> Latin1Char(b[i])]

RECURSIVE Utf8Decode(_)
\* bytes.decode('utf-8'): ASCII bytes are themselves, C3 A9 is U+E9, and a high
\* byte that starts or continues no well-formed sequence is an error
Utf8Decode(b) ==
    IF b = <<>> THEN [exc |-> "none", s |-> <<>>]
    ELSE IF Head(b) \notin HighBytes
         THEN LET r == Utf8Decode(Tail(b)) IN [exc |-> r.exc, s |-> <<Head(b)>> \o r.s]
    ELSE IF Head(b) = "xC3" /\ Len(b) >= 2 /\ b[2] = "xA9"
         THEN LET r == Utf8Decode(SubSeq(b, 3, Len(b))) IN [exc |-> r.exc, s |-> <<"U+E9">> \o r.s]
    ELSE [exc |-> "UnicodeDecodeError", s |-> <<>>]

-----------------------------------------------------------------------------
(* Byte streams *)

Ch(c) == [ch |-> c]
B64(j) == [b64 |-> j]
Pad(n) == [pad |-> n]

IsCh(e) == DOMAIN e = {"ch"}
IsB64(e) == DOMAIN e = {"b64"}
IsPad(e) == DOMAIN e = {"pad"}

\* the place in a stream where the peer sends nothing more and does not close
Stall == [stall |-> TRUE]
IsStall(e) == DOMAIN e = {"stall"}

\* what a read that raised socket.timeout is recorded as
TimedOut == <<Stall>>

ByteLen(e) == IF IsCh(e) THEN 1 ELSE IF IsPad(e) THEN e.pad ELSE IF IsStall(e) THEN 0 ELSE B64Len

RECURSIVE StreamLen(_)
\* len() of a bytes object
StreamLen(s) == IF s = <<>> THEN 0 ELSE ByteLen(Head(s)) + StreamLen(Tail(s))

\* a text of byte symbols as a stream
Bytes(b) == [i \in 1..Len(b) |-> Ch(b[i])]

CRLF == <<Ch("\r"), Ch("\n")>>

RECURSIVE ReadLineAcc(_, _, _)
ReadLineAcc(s, limit, acc) ==
    IF s = <<>> \/ limit <= 0 THEN <<acc, s>>
    ELSE LET e == Head(s) IN
         IF IsStall(e) THEN <<TimedOut, s>>
         ELSE IF IsPad(e) /\ e.pad > limit
         THEN <<Append(acc, Pad(limit)), <<Pad(e.pad - limit)>> \o Tail(s)>>
         ELSE IF e = Ch("\n") THEN <<Append(acc, e), Tail(s)>>
         ELSE ReadLineAcc(Tail(s), limit - ByteLen(e), Append(acc, e))

\* fp.readline(limit) on a stream that ends at end of file or stalls:
\* <<the line read (TimedOut when the read timed out), what is left in the stream>>
ReadLine(s, limit) == ReadLineAcc(s, limit, <<>>)

\* the byte symbols of a line; a filler run (Pad(n): n bytes '?') and a blob have
\* the one symbol "?"
LineBytes(line) == [i \in 1..Len(line) |-> IF IsCh(line[i]) THEN line[i].ch ELSE "?"]

RECURSIVE Lines(_)
\* a whole stream cut into lines, up to its end or to where it stalls
Lines(s) ==
    IF s = <<>> THEN <<>>
    ELSE LET rest(r) == IF r[1] = TimedOut THEN <<>> ELSE <<r[1]>> \o Lines(r[2])
         IN  rest(ReadLine(s, StreamLen(s) + 1))

-----------------------------------------------------------------------------
(* JSON text, as far as the codec looks into it *)

RECURSIVE Canon(_, _)
\* json.dumps(json.loads(s)) on the text of an object: outside string literals
\* the blanks are dropped and one blank follows every ':' and ','
Canon(s, inString) ==
    IF s = <<>> THEN <<>>
    ELSE LET c == Head(s) IN
         IF c = "\"" THEN <<c>> \o Canon(Tail(s), ~inString)
         ELSE IF inString THEN <<c>> \o Canon(Tail(s), inString)
         ELSE IF c \in Whitespace THEN Canon(Tail(s), inString)
         ELSE IF c \in {":", ","} THEN <<c, " ">> \o Canon(Tail(s), inString)
         ELSE <<c>> \o Canon(Tail(s), inString)

Quotes(s) == Len(SelectSeq(s, LAMBDA c : c = "\""))

\* json.loads(s) of a text that begins with '{', kept as the text json.dumps gives back
JsonLoads(s) ==
    IF Len(s) >= 2 /\ s[Len(s)] = "}" /\ Quotes(s) % 2 = 0
    THEN [exc |-> "none", v |-> Canon(s, FALSE)]
    ELSE [exc |-> "JSONDecodeError", v |-> <<>>]

-----------------------------------------------------------------------------
(* Exceptions, by class name *)

\* the classes `except ValueError` catches
ValueErrors == {"ValueError", "JSONDecodeError", "UnicodeEncodeError", "UnicodeDecodeError",
                "binascii.Error"}

\* the classes `except ConnectionError` catches
ConnectionErrors == {"RemoteDisconnected", "ConnectionResetError"}

-----------------------------------------------------------------------------
(* Values a caller may pass as topic or payload, and JSON values on the wire *)

Str(s) == [kind |-> "str", v |-> s]
RawBytes(b) == [kind |-> "bytes", v |-> b]
Producer(s) == [kind |-> "callable", v |-> s]      \* a zero-argument function returning s
Dict(s) == [kind |-> "dict", v |-> s]              \* a dict, by the text json.dumps gives

NoMsg == [none |-> TRUE]

-----------------------------------------------------------------------------
(* cmit/messages.py *)

\* CMITMessage.__init__
CMITMessage(topic, msg_id) ==
    LET e == encode(topic.v) IN
    IF topic.kind = "bytes"
    THEN [exc |-> "none",
          m |-> [msg_id |-> msg_id, timestamp |-> 0, topic |-> topic.v, payload |-> <<>>]]
    ELSE IF topic.kind \in {"str", "callable"}
    THEN [exc |-> e.exc,
          m |-> [msg_id |-> msg_id, timestamp |-> 0, topic |-> e.b, payload |-> <<>>]]
    ELSE [exc |-> "TypeError", m |-> NoMsg]

\* CMITMessage.payload setter
SetPayload(m, value) ==
    LET e == encode(value.v) IN
    IF value.kind = "bytes"
    THEN [exc |-> "none", m |-> [m EXCEPT !.payload = value.v]]
    ELSE [exc |-> e.exc, m |-> IF e.exc = "none" THEN [m EXCEPT !.payload = e.b] ELSE m]

\* CMITMessage.as_string: the JSON object of the message
as_string(m) ==
    LET t == Utf8Decode(m.topic)
        p == Utf8Decode(m.payload)
    IN  IF p.exc # "none" THEN [exc |-> p.exc, j |-> NoMsg]
        ELSE IF t.exc # "none" THEN [exc |-> t.exc, j |-> NoMsg]
        ELSE [exc |-> "none",
              j |-> [id |-> m.msg_id, timestamp |-> m.timestamp,
                     topic |-> Str(t.s), payload |-> Str(p.s)]]

\* CMITMessage.__call__: base64.b64encode(self.as_bytes()), no line terminator
MessageCall(m) ==
    LET a == as_string(m) IN
    [exc |-> a.exc, b |-> IF a.exc = "none" THEN <<B64(a.j)>> ELSE <<>>]

B64Alphabet == {"+", "/", "="} \cup {Digits[i] : i \in 1..10}
                 \cup {LowerCase[i] : i \in 1..26} \cup {UpperCase[i] : i \in 1..26}

\* base64.b64decode(line) then .decode() then json.loads: characters outside the
\* alphabet (the '?' of a filler run among them) are discarded; what is left is one
\* blob, nothing, or not a message
B64JsonLoads(line) ==
    LET kept == SelectSeq(line, LAMBDA e : ~(IsPad(e) \/ (IsCh(e) /\ e.ch \notin B64Alphabet)))
    IN
    IF kept = <<>> THEN [exc |-> "JSONDecodeError", j |-> NoMsg]
    ELSE IF Len(kept) = 1 /\ IsB64(kept[1])
         THEN IF "invalid" \in DOMAIN kept[1].b64
              THEN [exc |-> "JSONDecodeError", j |-> NoMsg]
              ELSE [exc |-> "none", j |-> kept[1].b64]
    ELSE [exc |-> "binascii.Error", j |-> NoMsg]

MsgKeys == {"id", "topic", "timestamp", "payload"}

\* CMITMessage.parse_message
CMITMessage_parse_message(line) ==
    LET d == B64JsonLoads(line) IN
    IF d.exc = "JSONDecodeError" THEN [exc |-> "ValueError", m |-> NoMsg]
    ELSE IF d.exc # "none" THEN [exc |-> d.exc, m |-> NoMsg]
    ELSE IF "payload" \notin DOMAIN d.j THEN [exc |-> "KeyError", m |-> NoMsg]
    ELSE LET structured == d.j.payload.kind = "str" /\ StartsWith(d.j.payload.v, <<"{">>)
             loaded == JsonLoads(d.j.payload.v)
             value == IF structured THEN Dict(loaded.v) ELSE d.j.payload
         IN  IF structured /\ loaded.exc # "none" THEN [exc |-> "ValueError", m |-> NoMsg]
             ELSE IF ~(MsgKeys \subseteq DOMAIN d.j) THEN [exc |-> "ValueError", m |-> NoMsg]
             ELSE LET c == CMITMessage(d.j.topic, d.j.id) IN
                  IF c.exc # "none" THEN [exc |-> c.exc, m |-> NoMsg]
                  ELSE LET p == SetPayload(c.m, value) IN
                       IF p.exc # "none" THEN [exc |-> p.exc, m |-> NoMsg]
                       ELSE [exc |-> "none", m |-> [p.m EXCEPT !.timestamp = d.j.timestamp]]

\* ServerErrorMessage.__init__: the payload is json.dumps({"code": code, "reason": reason})
ServerErrorMessage(topic, msg_id, ts, code, reason) ==
    LET c == CMITMessage(Str(topic), msg_id)
        text == <<"{", "\"", "code", "\"", ":", " ">> \o Fmt3(code)
                  \o <<",", " ", "\"", "reason", "\"", ":", " ", "\"">> \o reason \o <<"\"", "}">>
    IN  IF c.exc # "none" THEN c
        ELSE LET p == SetPayload([c.m EXCEPT !.timestamp = ts], Str(text)) IN
             [exc |-> p.exc, m |-> p.m]

-----------------------------------------------------------------------------
(* cmit/client.py: the response parser.  A parser result is a record: exc the  *)
(* exception raised ("none" when it returned), fp what is left of the stream,  *)
(* closed whether the response object has closed its file.                     *)

CMIT_PREFIX == <<"C", "M", "I", "T", "/">>
CMIT_1_0 == <<"C", "M", "I", "T", "/", "1", ".", "0">>

\* parse_message(fp), the module-level function of client.py
parse_message(fp) ==
    LET r1 == ReadLine(fp, MAXLINE + 1)
        r2 == ReadLine(r1[2], MAXLINE + 1)
        m == CMITMessage_parse_message(r2[1])
    IN  IF StreamLen(r1[1]) > MAXLINE THEN [exc |-> "LineTooLong", msg |-> NoMsg, fp |-> r1[2]]
        ELSE IF r1[1] # CRLF THEN [exc |-> "ValueError", msg |-> NoMsg, fp |-> r1[2]]
        ELSE IF StreamLen(r2[1]) > MAXLINE THEN [exc |-> "LineTooLong", msg |-> NoMsg, fp |-> r2[2]]
        ELSE IF r2[1] = <<>> THEN [exc |-> "RemoteDisconnected", msg |-> NoMsg, fp |-> r2[2]]
        ELSE IF m.exc \in ValueErrors THEN [exc |-> "ValueError", msg |-> NoMsg, fp |-> r2[2]]
        ELSE [exc |-> m.exc, msg |-> m.m, fp |-> r2[2]]

\* len() of the str that str(line, "utf-8") gave as text: the bytes of the line
\* less those that decoding merged into one character
StrLen(line, text) == StreamLen(line) - (Len(line) - Len(text))

\* int(status) succeeds: blanks around a run of digits
IsIntText(s) == AllDigits(Strip(s))

\* CMITResponse._read_status
read_status(fp) ==
    LET r == ReadLine(fp, MAXLINE + 1)
        text == Utf8Decode(LineBytes(r[1]))
        w3 == SplitWs(text.s, 2)
        w2 == SplitWs(text.s, 1)
        version == IF Len(w3) = 3 THEN w3[1] ELSE IF Len(w2) = 2 THEN w2[1] ELSE <<>>
        status == IF Len(w3) = 3 THEN w3[2] ELSE IF Len(w2) = 2 THEN w2[2] ELSE <<>>
        reason == IF Len(w3) = 3 THEN w3[3] ELSE <<>>
        none == [exc |-> "none", version |-> version, status |-> 0, reason |-> reason,
                 fp |-> r[2], closed |-> FALSE]
    IN  IF text.exc # "none" THEN [none EXCEPT !.exc = text.exc]
        ELSE IF StrLen(r[1], text.s) > MAXLINE THEN [none EXCEPT !.exc = "LineTooLong"]
        ELSE IF r[1] = <<>> THEN [none EXCEPT !.exc = "RemoteDisconnected"]
        ELSE IF ~StartsWith(version, CMIT_PREFIX)
             THEN [none EXCEPT !.exc = "BadStatusLine", !.closed = TRUE]
        ELSE IF ~IsIntText(status) THEN [none EXCEPT !.exc = "BadStatusLine"]
        ELSE IF ~(100 <= ToInt(Strip(status)) /\ ToInt(Strip(status)) <= 999)
             THEN [none EXCEPT !.exc = "BadStatusLine"]
        ELSE [none EXCEPT !.status = ToInt(Strip(status))]

\* the versions CMITResponse.begin accepts
ClientVersions == {CMIT_1_0}

\* no status line is passed over
IsInterimNever(status) == FALSE

\* CMITResponse.begin: the status after which it reads another status line
IsInterim(status) == status = 100

RECURSIVE begin(_)
\* CMITResponse.begin on a fresh response (msg is None) reading the stream fp
begin(fp) ==
    LET fresh(st) == [exc |-> "none", version |-> UNKNOWN, status |-> 0, reason |-> <<>>,
                      msg |-> NoMsg, fp |-> st.fp, closed |-> st.closed, interim |-> 0]
        interim(b) == [b EXCEPT !.interim = b.interim + 1]
        final(got, pm) ==
            [got EXCEPT !.version = "10", !.exc = pm.exc, !.msg = pm.msg, !.fp = pm.fp]
        versioned(st, got) ==
            IF st.version \notin ClientVersions THEN [got EXCEPT !.exc = "UnknownProtocol"]
            ELSE final(got, parse_message(st.fp))
        after(st) ==
            IF st.exc # "none" THEN [fresh(st) EXCEPT !.exc = st.exc]
            ELSE IF IsInterim(st.status) THEN interim(begin(st.fp))
            ELSE versioned(st, [fresh(st) EXCEPT !.status = st.status,
                                                 !.reason = Strip(st.reason)])
    IN  after(read_status(fp))

\* a response object that takes every begin() for its first
HasMsgNever(resp) == FALSE

\* CMITResponse.begin: self.msg is not None
HasMsg(resp) == resp.msg # NoMsg

\* CMITResponse.begin on the response object resp, whatever it has read so far
begin_on(resp) ==
    IF HasMsg(resp) THEN resp
    ELSE IF resp.closed THEN [resp EXCEPT !.exc = "AttributeError"]
    ELSE begin(resp.fp)

-----------------------------------------------------------------------------
(* cmit/__init__.py: CMITStatus *)

CONTINUE == 100
PROCESSING == 102
OK == 200
ACCEPTED == 202
BAD_REQUEST == 300
UNAUTHORIZED == 301
INTERNAL_SERVER_ERROR == 400
NOT_IMPLEMENTED == 401
BAD_GATEWAY == 402
SERVICE_UNAVAILABLE == 403

StatusCodes == {CONTINUE, PROCESSING, OK, ACCEPTED, BAD_REQUEST, UNAUTHORIZED,
                INTERNAL_SERVER_ERROR, NOT_IMPLEMENTED, BAD_GATEWAY, SERVICE_UNAVAILABLE}

\* CMITStatus.phrase.  A multi-character string stands for that literal of the source.
Phrase(code) ==
    CASE code = CONTINUE -> <<"Continue">>
      [] code = PROCESSING -> <<"Processing">>
      [] code = OK -> <<"OK">>
      [] code = ACCEPTED -> <<"Accepted">>
      [] code = BAD_REQUEST -> <<"Bad Request">>
      [] code = UNAUTHORIZED -> <<"Unauthorized">>
      [] code = INTERNAL_SERVER_ERROR -> <<"Internal Server Error">>
      [] code = NOT_IMPLEMENTED -> <<"Not Implemented">>
      [] code = BAD_GATEWAY -> <<"Bad Gateway">>
      [] code = SERVICE_UNAVAILABLE -> <<"Service Unavailable">>
      [] OTHER -> <<"???">>

\* CMITStatus.description
Description(code) ==
    CASE code = CONTINUE -> <<"Request received, please continue">>
      [] code = PROCESSING -> <<"Request in progress">>
      [] code = OK -> <<"Request fulfilled, document follows">>
      [] code = ACCEPTED -> <<"Request accepted, processing continues off-line">>
      [] code = BAD_REQUEST -> <<"Bad request syntax or unsupported method">>
      [] code = UNAUTHORIZED -> <<"No permission -- see authorization schemes">>
      [] code = INTERNAL_SERVER_ERROR -> <<"Server got itself in trouble">>
      [] code = NOT_IMPLEMENTED -> <<"Server does not support this operation">>
      [] code = BAD_GATEWAY -> <<"Invalid responses from another server/proxy">>
      [] code = SERVICE_UNAVAILABLE ->
            <<"The server cannot process the request due to a high load">>
      [] OTHER -> <<"???">>

-----------------------------------------------------------------------------
(* cmit/server.py: BaseCMITRequestHandler.  A handler is a record h: rfile    *)
(* the request stream still unread, wfile what it has written, buf the        *)
(* _response_buffer, exc the exception that ended it ("none" when running),   *)
(* ret the value the last parse function returned, calls the do_ methods      *)
(* invoked, in order, errors the codes send_error was called with, requests   *)
(* the number of handle_one_request calls, closes the close flag as each of   *)
(* them left it.                                                              *)

default_protocol_version == CMIT_1_0

\* the id "%032x" % randbits(128) gives
RandomId == "random-id"

NewHandler(rfile) ==
    [rfile |-> rfile, wfile |-> <<>>, buf |-> <<>>, close_connection |-> FALSE,
     command |-> <<>>, request_version |-> <<>>, request_line |-> <<>>,
     msg |-> NoMsg, exc |-> "none", ret |-> "None", calls |-> <<>>, errors |-> <<>>,
     requests |-> 0, closes |-> <<>>,
     cls |-> "SimpleCMITRequestHandler", task_router |-> <<>>]

\* BaseCMITRequestHandler.send_response_status (through send_response)
send_response_status(h, code, message) ==
    LET e == encode(default_protocol_version \o <<" ">> \o Fmt3(code) \o <<" ">> \o message
                    \o <<"\r", "\n">>)
    IN  IF e.exc # "none" THEN [h EXCEPT !.exc = e.exc]
        ELSE [h EXCEPT !.buf = h.buf \o Bytes(e.b)]

\* BaseCMITRequestHandler.flush_response_line
flush_response_line(h) == [h EXCEPT !.wfile = h.wfile \o h.buf, !.buf = <<>>]

\* BaseCMITRequestHandler.end_response_line
end_response_line(h) == flush_response_line([h EXCEPT !.buf = h.buf \o CRLF])

\* json.dumps of a str, between the quotes: non-ASCII characters and quotes are escaped
JsonEscape(s) ==
    [i \in 1..Len(s) |->
        CASE s[i] = "U+E9" -> "\\u00e9" [] s[i] = "U+C3" -> "\\u00c3"
          [] s[i] = "U+A9" -> "\\u00a9" [] s[i] = "U+20AC" -> "\\u20ac"
          [] s[i] = "\"" -> "\\q" [] OTHER -> s[i]]

\* BaseCMITRequestHandler.send_error with message given, the rest defaulted
send_error(h, code, message) ==
    LET explain == Description(code)
        topic == <<"error.">> \o message
        em == ServerErrorMessage(topic, RandomId, 0, code,
                                 JsonEscape(message \o <<" - ">> \o explain))
        h0 == [h EXCEPT !.errors = Append(h.errors, code)]
        h1 == send_response_status(h0, code, message)
        h2 == flush_response_line(h1)
        body == MessageCall(em.m)
    IN  IF em.exc # "none" THEN [h0 EXCEPT !.exc = em.exc]
        ELSE IF h1.exc # "none" THEN h1
        ELSE IF body.exc # "none" THEN [h2 EXCEPT !.exc = body.exc]
        ELSE [h2 EXCEPT !.wfile = h2.wfile \o body.b]

\* version checks that compare the major number alone
VersionCheckMajor(version) ==
    LET parts == SplitOn(version, "/", 1)
        base == parts[2]
        number == SplitOn(base, ".", -1)
    IN  IF ~StartsWith(version, CMIT_PREFIX) THEN "bad"
        ELSE IF Len(number) # 2 THEN "bad"
        ELSE IF \E i \in 1..2 : ~AllDigits(number[i]) THEN "bad"
        ELSE IF \E i \in 1..2 : Len(number[i]) > 3 THEN "bad"
        ELSE IF ToInt(number[1]) > 2 THEN "invalid"
        ELSE "ok"

\* the version checks of parse_request: "ok", or which error it ends with
VersionCheck(version) ==
    LET parts == SplitOn(version, "/", 1)
        base == parts[2]
        number == SplitOn(base, ".", -1)
    IN  IF ~StartsWith(version, CMIT_PREFIX) THEN "bad"
        ELSE IF Len(number) # 2 THEN "bad"
        ELSE IF \E i \in 1..2 : ~AllDigits(number[i]) THEN "bad"
        ELSE IF \E i \in 1..2 : Len(number[i]) > 3 THEN "bad"
        ELSE IF ToInt(number[1]) > 2 \/ (ToInt(number[1]) = 2 /\ ToInt(number[2]) >= 0)
             THEN "invalid"
        ELSE "ok"

\* a connection kept open after a request
KeepAlive == FALSE

\* parse_request: "As of right now all connections close after response"
AlwaysClose == TRUE

\* BaseCMITRequestHandler.parse_request on the raw request line
parse_request(h, raw_request_line) ==
    LET request_line == RStrip(DecodeLatin1(LineBytes(raw_request_line)), {"\r", "\n"})
        words == SplitWs(request_line, 2)
        version == words[Len(words)]
        h0 == [h EXCEPT !.command = <<>>, !.request_version = default_protocol_version,
                        !.close_connection = AlwaysClose, !.request_line = request_line]
    IN  IF Len(words) = 0 THEN [h0 EXCEPT !.ret = "False"]
        ELSE IF Len(words) >= 2
        THEN IF VersionCheck(version) = "bad"
             THEN [send_error(h0, BAD_REQUEST,
                              <<"Bad protocol version (">> \o version \o <<")">>)
                     EXCEPT !.ret = "False"]
             ELSE IF VersionCheck(version) = "invalid"
             THEN [send_error(h0, BAD_REQUEST,
                              <<"Invalid CMIT version (">> \o SplitOn(version, "/", 1)[2] \o <<")">>)
                     EXCEPT !.ret = "False"]
             ELSE IF ~(1 <= Len(words) /\ Len(words) <= 2)
             THEN [h0 EXCEPT !.request_version = version, !.exc = "NameError"]
             ELSE [h0 EXCEPT !.request_version = version, !.command = words[1], !.ret = "True"]
        ELSE [h0 EXCEPT !.ret = "None"]

\* a separator test that lets every line pass
IsSpacerAny(line) == TRUE

\* parse_body's test of the separator line: spacer != "\r\n" fails it
IsSpacer(line) == line = CRLF

\* BaseCMITRequestHandler.parse_body
parse_body(h) ==
    LET r1 == ReadLine(h.rfile, MAXLINE + 1)
        r2 == ReadLine(r1[2], MAXLINE + 1)
        h1 == [h EXCEPT !.msg = NoMsg, !.rfile = r1[2]]
        h2 == [h1 EXCEPT !.rfile = r2[2]]
        m == CMITMessage_parse_message(r2[1])
    IN  IF r1[1] = TimedOut THEN [h1 EXCEPT !.exc = "timeout"]
        ELSE IF ~IsSpacer(r1[1])
        THEN [send_error(h1, BAD_REQUEST, <<"Invalid request body">>) EXCEPT !.ret = "False"]
        ELSE IF r2[1] = TimedOut THEN [h2 EXCEPT !.exc = "timeout"]
        ELSE IF r2[1] = CRLF
        THEN [send_error(h2, BAD_REQUEST, <<"Invalid request body">>) EXCEPT !.ret = "False"]
        ELSE IF m.exc # "none" THEN [h2 EXCEPT !.exc = m.exc]
        ELSE [h2 EXCEPT !.msg = m.m, !.ret = "True"]

-----------------------------------------------------------------------------
(* cmit/server.py: SimpleCMITRequestHandler, and cmit/utils.py: cmit_response *)

PING == <<"P", "I", "N", "G">>
EXECUTE == <<"E", "X", "E", "C", "U", "T", "E">>
POLL == <<"P", "O", "L", "L">>

\* a method lookup that ignores the case of the command
HasMethodAnyCase(command) == Upper(command) \in {PING, EXECUTE, POLL}

\* hasattr(self, 'do_' + command) on SimpleCMITRequestHandler
HasMethod(command) == command \in {PING, EXECUTE, POLL}

\* a reply built without the id of the request: CMITMessage(self.msg.topic), whose
\* msg_id is the default "0"
ReplyDefaultId(h, payload) ==
    LET t == Utf8Decode(h.msg.topic)
        c == CMITMessage(Str(t.s), "0")
    IN  IF t.exc # "none" THEN [exc |-> t.exc, m |-> NoMsg]
        ELSE IF c.exc # "none" THEN c
        ELSE SetPayload(c.m, Dict(payload))

\* the message do_EXECUTE and do_POLL build: CMITMessage(self.msg.topic, self.msg.msg_id)
\* with a dict payload
Reply(h, payload) ==
    LET t == Utf8Decode(h.msg.topic)
        c == CMITMessage(Str(t.s), h.msg.msg_id)
    IN  IF t.exc # "none" THEN [exc |-> t.exc, m |-> NoMsg]
        ELSE IF c.exc # "none" THEN c
        ELSE SetPayload(c.m, Dict(payload))

\* SimpleCMITRequestHandler.do_PING, before the decorator
do_PING(h) == [exc |-> "none", status |-> OK, m |-> h.msg, task_router |-> h.task_router]

\* SimpleCMITRequestHandler.do_EXECUTE, before the decorator
do_EXECUTE(h) ==
    LET r == Reply(h, <<"{", "\"", "res", "\"", ":", " ", "\"", "Processed", "\"", "}">>) IN
    [exc |-> r.exc, status |-> ACCEPTED, m |-> r.m, task_router |-> h.task_router]

\* SimpleCMITRequestHandler.do_POLL, before the decorator
do_POLL(h) ==
    LET r == Reply(h, <<"{", "\"", "depth", "\"", ":", " ", "0", "}">>) IN
    [exc |-> r.exc, status |-> OK, m |-> r.m, task_router |-> h.task_router]

RECURSIVE Decimal(_)
\* json.dumps of a natural number
Decimal(n) ==
    IF n < 10 THEN <<Digits[n + 1]>> ELSE Decimal(n \div 10) \o <<Digits[(n % 10) + 1]>>

\* TaskHandler.get_task_queue on the dict server.task_router: a queue that is not
\* there is created empty
get_task_queue(task_router, que_name) ==
    [k \in DOMAIN task_router \cup {que_name} |->
        IF k \in DOMAIN task_router THEN task_router[k] ELSE <<>>]

\* a queue that never takes a task
register_nothing(task_router, task_route, task_id) == get_task_queue(task_router, task_route)

\* TaskHandler.register_task: the task appended to the queue of its route
register_task(task_router, task_route, task_id) ==
    [get_task_queue(task_router, task_route) EXCEPT
        ![task_route] = Append(@, [route |-> task_route, task_id |-> task_id])]

\* TaskHandler.do_EXECUTE (demo/echo-server.py), before the decorator
TaskHandler_do_EXECUTE(h) ==
    LET replied(t, r) ==
            [exc |-> r.exc, status |-> ACCEPTED, m |-> r.m,
             task_router |-> register_task(h.task_router, t.s, h.msg.msg_id)]
        route(t) ==
            IF t.exc # "none"
            THEN [exc |-> t.exc, status |-> 0, m |-> NoMsg, task_router |-> h.task_router]
            ELSE replied(t, Reply(h, <<"{", "\"", "res", "\"", ":", " ", "\"", "Processed",
                                       "\"", "}">>))
    IN  route(Utf8Decode(h.msg.topic))

\* TaskHandler.do_POLL, before the decorator
TaskHandler_do_POLL(h) ==
    LET replied(queues, r) ==
            [exc |-> r.exc, status |-> OK, m |-> r.m, task_router |-> queues]
        counted(queues, length) ==
            replied(queues, Reply(h, <<"{", "\"", "depth", "\"", ":", " ">> \o Decimal(length)
                                     \o <<"}">>))
        queue(t, queues) == counted(queues, Len(queues[t.s]))
        route(t) ==
            IF t.exc # "none"
            THEN [exc |-> t.exc, status |-> 0, m |-> NoMsg, task_router |-> h.task_router]
            ELSE queue(t, get_task_queue(h.task_router, t.s))
    IN  route(Utf8Decode(h.msg.topic))

\* the method getattr(self, 'do_' + command) names, by the handler's class
Method(h) ==
    CASE h.command = PING -> do_PING(h)
      [] h.command = EXECUTE /\ h.cls = "TaskHandler" -> TaskHandler_do_EXECUTE(h)
      [] h.command = POLL /\ h.cls = "TaskHandler" -> TaskHandler_do_POLL(h)
      [] h.command = EXECUTE -> do_EXECUTE(h)
      [] h.command = POLL -> do_POLL(h)
      [] OTHER -> [exc |-> "AttributeError", status |-> 0, m |-> NoMsg,
                   task_router |-> h.task_router]

\* cmit_response's wrapper around a do_ method
cmit_response(h) ==
    LET h0 == [h EXCEPT !.calls = Append(h.calls, h.command)]
        written(h2, body) == [h2 EXCEPT !.wfile = h2.wfile \o <<B64(body.j)>> \o CRLF]
        status(h1, body) ==
            IF h1.exc # "none" THEN h1 ELSE written(end_response_line(h1), body)
        encoded(ran, r, body) ==           \* bytes(msg)
            IF body.exc # "none" THEN [ran EXCEPT !.exc = body.exc]
            ELSE status(send_response_status(ran, r.status, Phrase(r.status)), body)
        called(r) ==
            IF r.exc # "none" THEN [h0 EXCEPT !.task_router = r.task_router, !.exc = r.exc]
            ELSE encoded([h0 EXCEPT !.task_router = r.task_router], r, as_string(r.m))
        logged(l) ==                       \* str(ref.msg) in the debug line
            IF l.exc # "none" THEN [h0 EXCEPT !.exc = l.exc] ELSE called(Method(h))
    IN  logged(as_string(h.msg))

\* an empty read answered like a request line that is too long
peer_closed_answered(h) == send_error(h, BAD_REQUEST, Phrase(BAD_REQUEST))

\* handle_one_request when the read of the request line gives no bytes: the
\* connection is taken as closed
peer_closed(h) == [h EXCEPT !.close_connection = TRUE]

\* BaseCMITRequestHandler.handle_one_request
handle_one_request(h) ==
    LET timed_out(h1) == [h1 EXCEPT !.exc = "none", !.close_connection = TRUE]
        dispatch(b) ==
            IF b.exc = "timeout" THEN timed_out(b)
            ELSE IF b.exc # "none" \/ b.ret # "True" THEN b
            ELSE cmit_response(b)
        parsed(p) ==
            IF p.exc # "none" \/ p.ret # "True" THEN p
            ELSE IF ~HasMethod(p.command)
            THEN send_error(p, NOT_IMPLEMENTED,
                            <<"Unsupported method (", "'">> \o p.command \o <<"'", ")">>)
            ELSE dispatch(parse_body(p))
        read(r, h0) ==
            IF r[1] = TimedOut THEN timed_out(h0)
            ELSE IF StreamLen(r[1]) > MAXLINE
            THEN send_error([h0 EXCEPT !.request_line = <<>>, !.request_version = <<>>,
                                       !.command = <<>>],
                            BAD_REQUEST, Phrase(BAD_REQUEST))
            ELSE IF r[1] = <<>> THEN peer_closed(h0)
            ELSE parsed(parse_request(h0, r[1]))
        line(r) == read(r, [h EXCEPT !.rfile = r[2], !.requests = h.requests + 1])
    IN  line(ReadLine(h.rfile, MAXLINE + 1))

RECURSIVE handle_loop(_)
\* BaseCMITRequestHandler.handle: one handle_one_request, then another for as long
\* as close_connection is not set
handle_loop(h) ==
    LET again(h1) == IF h1.exc # "none" \/ h1.close_connection THEN h1 ELSE handle_loop(h1)
        noted(h1) == again([h1 EXCEPT !.closes = Append(h1.closes, h1.close_connection)])
    IN  noted(handle_one_request(h))

\* BaseCMITRequestHandler.handle, then StreamRequestHandler.finish flushing wfile
handle(rfile) == handle_loop([NewHandler(rfile) EXCEPT !.close_connection = TRUE])

-----------------------------------------------------------------------------
(* cmit/client.py: CMITConnection.  The operators below are the decisions of  *)
(* its methods; the actions further down put them together.                    *)

\* a request may start whenever none is half-written
CanSendLoose(st) == st # CS_REQ_STARTED

\* _send_request: the state test that lets a request start
CanSend(st) == st = CS_IDLE

\* a response may be read as soon as a request was started
ResponseReadyLoose(st, rsp) == ~(st = CS_IDLE \/ rsp # 0)

\* getresponse: the test that lets a response be read
ResponseReady(st, rsp) == ~(st # CS_REQ_SENT \/ rsp # 0)

\* a response that keeps the connection open
will_close_never == FALSE

\* CMITResponse.__init__: will_close
will_close == TRUE

\* end_request sending nothing
EndOfRequestNothing == <<>>

\* end_request: what it sends after the state change
EndOfRequest == CRLF

\* _send_request: the payload given to the message, by the kind of the caller's value
RequestPayload(m, payload) ==
    IF payload.kind \in {"str", "callable"} THEN SetPayload(m, payload)
    ELSE IF payload.kind = "dict" THEN SetPayload(m, Str(payload.v))
    ELSE [exc |-> "none", m |-> m]

\* the assignments to __state a call makes, in order: <<new state, method>>
Step(to, by) == <<to, by>>

\* CMITConnection._send_request followed by end_request, on state st and socket sk.
\* failAt names the socket write that fails (0: none fails).  The result: exc, the
\* state left, the assignments to the state, and the bytes that reached the socket.
send_request(st, sk, command, topic, payload, msg_id, failAt) ==
    LET c == CMITMessage(topic, msg_id)
        p == RequestPayload(c.m, payload)
        line == encode(Upper(command) \o <<" ">> \o CMIT_1_0 \o <<"\r", "\n">>)
        body == MessageCall(p.m)
        w1 == Bytes(line.b)
        w2 == w1 \o CRLF
        w3 == w2 \o body.b
        started == <<Step(CS_REQ_STARTED, "_send_request")>>
        sent == Append(started, Step(CS_REQ_SENT, "end_request"))
        out(exc, state1, path, wrote) ==
            [exc |-> exc, state |-> state1, path |-> path, wrote |-> wrote]
    IN  IF ~CanSend(st) THEN out("CannotSendRequest", st, <<>>, <<>>)
        ELSE IF c.exc # "none" THEN out(c.exc, CS_REQ_STARTED, started, <<>>)
        ELSE IF p.exc # "none" THEN out(p.exc, CS_REQ_STARTED, started, <<>>)
        ELSE IF line.exc # "none" THEN out(line.exc, CS_REQ_STARTED, started, <<>>)
        ELSE IF sk = 0 THEN out("AttributeError", CS_REQ_STARTED, started, <<>>)
        ELSE IF failAt = 1 THEN out("OSError", CS_REQ_STARTED, started, <<>>)
        ELSE IF failAt = 2 THEN out("OSError", CS_REQ_STARTED, started, w1)
        ELSE IF body.exc # "none" THEN out(body.exc, CS_REQ_STARTED, started, w2)
        ELSE IF failAt = 3 THEN out("OSError", CS_REQ_STARTED, started, w2)
        ELSE IF failAt = 4 THEN out("OSError", CS_REQ_SENT, sent, w3)
        ELSE out("none", CS_REQ_SENT, sent, w3 \o EndOfRequest)

\* a socket: open while the client holds it open, wr the bytes the client wrote,
\* rd the bytes the peer sent that are still unread, answered once the peer has
\* replied and closed, reset once the peer has reset the connection
NewSock == [open |-> TRUE, wr |-> <<>>, rd |-> <<>>, answered |-> FALSE, reset |-> FALSE]

\* a socket closed by the client; what it carried is gone
ClosedSock == [open |-> FALSE, wr |-> <<>>, rd |-> <<>>, answered |-> FALSE, reset |-> FALSE]

\* a socket the connection has dropped its only reference to without closing it:
\* nothing can be written to it or read from it any more
Unreferenced(s) == [s EXCEPT !.wr = <<>>, !.rd = <<>>, !.answered = FALSE, !.reset = FALSE]

\* the socket self.sock names, for the record of a call
Held(ss, sk) == IF sk = 0 THEN ClosedSock ELSE ss[sk]

\* a close() that leaves the socket open
CloseSockKept(ss, sk) == ss

\* CMITConnection.close on the sockets
CloseSock(ss, sk) == IF sk = 0 THEN ss ELSE [ss EXCEPT ![sk] = ClosedSock]

\* what begin() meets on the socket s: a reset, a timeout while the peer is silent,
\* or the peer's bytes up to end of file
ReadResponse(s) ==
    LET stub(exc) == [exc |-> exc, version |-> UNKNOWN, status |-> 0, reason |-> <<>>,
                      msg |-> NoMsg, fp |-> s.rd, closed |-> FALSE, interim |-> 0]
    IN  IF s.reset THEN stub("ConnectionResetError")
        ELSE IF ~s.answered THEN stub("timeout")
        ELSE begin(s.rd)

NoResponse == [exc |-> "none", version |-> UNKNOWN, status |-> 0, reason |-> <<>>,
               msg |-> NoMsg, fp |-> <<>>, closed |-> FALSE, interim |-> 0]

\* CMITConnection.getresponse on state st, socket sk of the sockets ss.  The result:
\* exc, the state, socket and sockets left, the assignments to the state, and the
\* response object (resp) as begin() left it.
getresponse(st, sk, rsp, ss) ==
    LET drained == [ss EXCEPT ![sk].rd = <<>>]     \* the buffered reader took what had arrived
        out(exc, state1, sock1, socks1, path, resp) ==
            [exc |-> exc, state |-> state1, sock |-> sock1, socks |-> socks1,
             path |-> path, resp |-> resp,
             response |-> IF exc = "none" /\ ~will_close THEN 1 ELSE rsp]
        closing == <<Step(CS_IDLE, "close")>>
        begun(b) ==
            IF b.exc \in ConnectionErrors
            THEN out(b.exc, CS_IDLE, 0, CloseSock(ss, sk), closing, [b EXCEPT !.closed = TRUE])
            ELSE IF b.exc # "none"
            THEN out(b.exc, st, sk, drained, <<>>, [b EXCEPT !.closed = TRUE])
            ELSE IF will_close
            THEN out("none", CS_IDLE, 0, CloseSock(ss, sk),
                     <<Step(CS_IDLE, "getresponse")>> \o closing, b)
            ELSE out("none", CS_IDLE, sk, drained, <<Step(CS_IDLE, "getresponse")>>, b)
    IN  IF ~ResponseReady(st, rsp) THEN out("ResponseNotReady", st, sk, ss, <<>>, NoResponse)
        ELSE IF sk = 0 THEN out("AttributeError", st, sk, ss, <<>>, NoResponse)
        ELSE begun(ReadResponse(ss[sk]))

-----------------------------------------------------------------------------
(* cmit/requests: socket addressing (_internal_utils.py, models.py).  A text  *)
(* that may be None is NoneText when it is.                                   *)

\* str.lower(), on the characters of the model
Lower(s) ==
    [i \in 1..Len(s) |->
        IF \E k \in 1..26 : UpperCase[k] = s[i]
        THEN LowerCase[CHOOSE k \in 1..26 : UpperCase[k] = s[i]]
        ELSE s[i]]

Letters == {LowerCase[i] : i \in 1..26} \cup {UpperCase[i] : i \in 1..26}

DigitSet == {Digits[i] : i \in 1..10}

NoneText == <<"None">>

\* bool(t) is False: None or the empty text
Falsy(t) == t = NoneText \/ t = <<>>

RECURSIVE SpanIn(_, _)
\* the length of the longest prefix of s made of characters of set
SpanIn(s, set) == IF s = <<>> \/ Head(s) \notin set THEN 0 ELSE 1 + SpanIn(Tail(s), set)

RECURSIVE SpanOut(_, _)
\* the length of the longest prefix of s with no character of set
SpanOut(s, set) == IF s = <<>> \/ Head(s) \in set THEN 0 ELSE 1 + SpanOut(Tail(s), set)

\* what [a-zA-Z][rest]*: takes from the front of s, without the colon; <<>> when
\* it does not match
SchemeOf(s, rest) ==
    LET upto(k) == IF k < Len(s) /\ s[k + 1] = ":" THEN SubSeq(s, 1, k) ELSE <<>>
    IN  IF s = <<>> \/ Head(s) \notin Letters THEN <<>>
        ELSE upto(1 + SpanIn(Tail(s), rest))

\* _SCHEME_RE.search(s): ^(?:[a-zA-Z][a-zA-Z0-9+-]*:|/)
SCHEME_RE(s) ==
    \/ s # <<>> /\ Head(s) = "/"
    \/ SchemeOf(s, Letters \cup DigitSet \cup {"+", "-"}) # <<>>

\* _URI_RE.match(s).groups(): an optional scheme and colon, an optional '//' and
\* the characters up to the first of \ ? # . after it, and the rest, which must
\* hold neither ? nor #
URI_RE(s) ==
    LET groups(scheme, path, tail) ==
            IF \E i \in DOMAIN tail : tail[i] \in {"?", "#"}
            THEN [exc |-> "AttributeError", scheme |-> NoneText, path |-> NoneText,
                  file_type |-> NoneText]
            ELSE [exc |-> "none",
                  scheme |-> IF scheme = <<>> THEN NoneText ELSE scheme,
                  path |-> path, file_type |-> tail]
        authority(scheme, after, n) ==
            groups(scheme, SubSeq(after, 1, n), SubSeq(after, n + 1, Len(after)))
        slashed(scheme, after) ==
            authority(scheme, after, SpanOut(after, {"\\", "?", "#", "."}))
        hier(scheme, rest) ==
            IF StartsWith(rest, <<"/", "/">>) THEN slashed(scheme, SubSeq(rest, 3, Len(rest)))
            ELSE groups(scheme, NoneText, rest)
        schemed(scheme) ==
            hier(scheme, IF scheme = <<>> THEN s ELSE SubSeq(s, Len(scheme) + 2, Len(s)))
    IN  schemed(SchemeOf(s, Letters \cup DigitSet \cup {"+", ".", "-"}))

DotSock == <<".", "s", "o", "c", "k">>

\* SocketPath.__new__
SocketPath(scheme, path, file_type) ==
    [exc |-> "none",
     scheme |-> IF scheme # NoneText THEN Lower(scheme) ELSE scheme,
     path |-> IF ~Falsy(path) /\ ~StartsWith(path, <<"/">>) THEN <<"/">> \o path ELSE path,
     file_type |-> file_type]

\* parse_socket_path
parse_socket_path(socket_path) ==
    LET matched(m) ==
            IF m.exc # "none"
            THEN [exc |-> "ValueError", scheme |-> NoneText, path |-> NoneText,
                  file_type |-> NoneText]
            ELSE SocketPath(m.scheme, m.path,
                            IF Falsy(m.file_type) THEN DotSock ELSE m.file_type)
    IN  IF socket_path = <<>> THEN SocketPath(NoneText, NoneText, NoneText)
        ELSE matched(URI_RE(IF ~SCHEME_RE(socket_path) THEN <<"/", "/">> \o socket_path
                            ELSE socket_path))

\* the SocketPath.socket_path property: self.path + self.file_type
SocketTarget(parsed) ==
    IF parsed.path = NoneText \/ parsed.file_type = NoneText
    THEN [exc |-> "TypeError", t |-> <<>>]
    ELSE [exc |-> "none", t |-> parsed.path \o parsed.file_type]

\* requote_uri(urlunparse((scheme, target, "", "", "", ""))): the target goes in
\* as the network location, so the locator is scheme://target; the characters
\* of the model need no quoting
Locator(scheme, target) == scheme \o <<":", "/", "/">> \o target

\* PreparedRequest.prepare_socket_path, on a file system where the paths of
\* files exist: the exception, or the locator stored in self.socket_path
prepare_socket_path(socket_path, files) ==
    LET out(exc, uri) == [exc |-> exc, socket_path |-> uri]
        checked(parsed) ==
            IF parsed.exc # "none" THEN out("InvalidSocketPath", NoneText)
            ELSE IF Falsy(parsed.scheme) THEN out("MissingSchema", NoneText)
            ELSE IF Falsy(parsed.path) THEN out("InvalidSocketPath", NoneText)
            ELSE IF parsed.path \o parsed.file_type \notin files
            THEN out("InvalidSocketPath", NoneText)
            ELSE out("none", Locator(parsed.scheme, parsed.path \o parsed.file_type))
        stripped(sp) ==
            IF sp = <<>> THEN out("ValueError", NoneText)
            ELSE IF (\E i \in DOMAIN sp : sp[i] = ":")
                    /\ ~StartsWith(Lower(sp), <<"c", "m", "i", "t">>)
            THEN out("ValueError", NoneText)
            ELSE checked(parse_socket_path(sp))
    IN  stripped(Strip(socket_path))

-----------------------------------------------------------------------------
(* cmit/requests: the session's routing table (sessions.py) and the adapter's  *)
(* pooled connection (adapters.py).  Adapters and connections are numbered;   *)
(* 0 is None.                                                                 *)

\* the re-sort of mount() left out
KeepOrder(adapters, n) == adapters

\* a lookup that falls back on the first adapter
get_adapter_default(adapters, uri) == [exc |-> "none", adapter |-> adapters[1].adapter]

\* Session.mount, the loop over keys_to_move: every entry whose prefix is shorter
\* than n is popped and put back at the end, in order
MoveShorter(adapters, n) ==
    SelectSeq(adapters, LAMBDA e : Len(e.prefix) >= n)
        \o SelectSeq(adapters, LAMBDA e : Len(e.prefix) < n)

\* Session.mount on the ordered dict self.adapters: an assignment to a key that is
\* there keeps its place
mount(adapters, prefix, adapter) ==
    LET at == {i \in DOMAIN adapters : adapters[i].prefix = prefix}
        entry == [prefix |-> prefix, adapter |-> adapter]
        set == IF at = {} THEN Append(adapters, entry)
               ELSE [i \in DOMAIN adapters |-> IF i \in at THEN entry ELSE adapters[i]]
    IN  MoveShorter(set, Len(prefix))

\* Session.get_adapter: the first entry, in the dict's order, whose prefix starts
\* the locator when both are lowered
get_adapter(adapters, uri) ==
    LET hits == {i \in DOMAIN adapters : StartsWith(Lower(uri), Lower(adapters[i].prefix))}
    IN  IF hits = {} THEN [exc |-> "InvalidSchema", adapter |-> 0]
        ELSE [exc |-> "none",
              adapter |-> adapters[CHOOSE i \in hits : \A j \in hits : i <= j].adapter]

\* CMITConnection.__init__ with _validate_socket_path, on a file system where the
\* paths of files exist; a connection keeps what close() has done to it
CMITConnection(socket_fp, files) ==
    [exc |-> IF (\E i \in DOMAIN socket_fp : socket_fp[i] \in Whitespace)
                \/ socket_fp \notin files
             THEN "InvalidSocketPath" ELSE "none",
     c |-> [socket |-> socket_fp, state |-> CS_IDLE, sock |-> 0, response |-> 0,
            socks |-> <<>>, closes |-> 0]]

\* CMITConnection.close on a numbered connection
conn_close(c) ==
    [c EXCEPT !.state = CS_IDLE, !.sock = 0, !.response = 0,
              !.socks = CloseSock(c.socks, c.sock), !.closes = c.closes + 1]

\* what a call did to connections, in order
Ev(what, conn) == [ev |-> what, conn |-> conn]

\* CMITAdapter.get_connection(fp) with self.connection = pooled, among the
\* connections conns.  The result: exc, the connection returned, self.connection
\* afterwards, the connections, and the closes and creations in order.
get_connection(pooled, fp, conns, files) ==
    LET out(target, exc, conn, pooled1, conns1, events) ==
            [exc |-> exc, conn |-> conn, pooled |-> pooled1, conns |-> conns1,
             events |-> events, target |-> target.t]
        closed(stale) == [conns EXCEPT ![stale] = conn_close(conns[stale])]
        pick(target, made, new) ==
            IF pooled # 0 /\ conns[pooled].socket # target.t
            THEN IF made.exc # "none"
                 THEN out(target, made.exc, 0, 0, closed(pooled), <<Ev("close", pooled)>>)
                 ELSE out(target, "none", new, 0, Append(closed(pooled), made.c),
                          <<Ev("close", pooled), Ev("new", new)>>)
            ELSE IF pooled # 0 THEN out(target, "none", pooled, pooled, conns, <<>>)
            ELSE IF made.exc # "none" THEN out(target, made.exc, 0, 0, conns, <<>>)
            ELSE out(target, "none", new, new, Append(conns, made.c), <<Ev("new", new)>>)
        resolved(target) ==
            IF target.exc # "none" THEN out(target, target.exc, 0, pooled, conns, <<>>)
            ELSE pick(target, CMITConnection(target.t, files), Len(conns) + 1)
        parsed(p) ==
            IF p.exc # "none" THEN out([t |-> <<>>], p.exc, 0, pooled, conns, <<>>)
            ELSE resolved(SocketTarget(p))
    IN  parsed(parse_socket_path(fp))

\* no Response object
NoReply == [status_code |-> 0, reason |-> <<>>, topic |-> <<>>, msg_id |-> "", msg |-> NoMsg]

\* CMITAdapter.build_response: begin() once more, the fields copied, close()
build_response(rsp) ==
    LET copied(b) ==
            IF b.exc # "none" THEN [exc |-> b.exc, resp |-> NoReply]
            ELSE IF b.msg = NoMsg THEN [exc |-> "AttributeError", resp |-> NoReply]
            ELSE [exc |-> "none",
                  resp |-> [status_code |-> b.status, reason |-> b.reason,
                            topic |-> b.msg.topic, msg_id |-> b.msg.msg_id, msg |-> b.msg]]
    IN  copied(begin_on(rsp))

\* a statement of CMITAdapter.send that an earlier exception kept from running
Skipped == [exc |-> "skipped"]

\* CMITConnection.connect on a numbered connection: a new socket replaces self.sock
conn_connect(c) ==
    [c EXCEPT !.sock = Len(c.socks) + 1,
              !.socks = Append(IF c.sock = 0 THEN c.socks
                               ELSE [c.socks EXCEPT ![c.sock] = Unreferenced(c.socks[c.sock])],
                               NewSock)]

\* connection c once request() has returned r
Requested(c, r) == [c EXCEPT !.state = r.state, !.socks[c.sock].wr = r.wrote]

\* the sockets of connection c once the server has written wfile in answer
Answered(c, wfile) == [c.socks EXCEPT ![c.sock].rd = wfile, ![c.sock].answered = TRUE]

\* CMITAdapter.send, from what its statements gave: g from get_connection, c the
\* connection after connect() (up: a server listens), r from request(), gr from
\* getresponse(), b from build_response.  The result: exc, the connections left,
\* what was done to connections in order, and the Response.
send_outcome(g, up, c, r, gr, b) ==
    LET io == <<Ev("connect", g.conn), Ev("write", g.conn), Ev("read", g.conn)>>
        out(exc, c1, events, resp) ==
            [exc |-> exc,
             conns |-> IF g.conn = 0 THEN g.conns ELSE [g.conns EXCEPT ![g.conn] = c1],
             events |-> g.events \o events, resp |-> resp]
        read(c1) == [c1 EXCEPT !.state = gr.state, !.sock = gr.sock, !.socks = gr.socks]
    IN  IF g.exc # "none" THEN out(g.exc, c, <<>>, NoReply)
        ELSE IF ~up THEN out("OSError", g.conns[g.conn], SubSeq(io, 1, 1), NoReply)
        ELSE IF r.exc # "none" THEN out(r.exc, Requested(c, r), SubSeq(io, 1, 2), NoReply)
        ELSE IF gr.exc # "none" THEN out(gr.exc, read(Requested(c, r)), io, NoReply)
        ELSE out(b.exc, [read(Requested(c, r)) EXCEPT !.response = gr.response], io, b.resp)

\* PreparedRequest.prepare_payload with no data, args or kwargs: json.dumps of the
\* dict of the three
prepare_payload ==
    <<"{", "\"", "args", "\"", ":", " ", "[", "]", ",", " ", "\"", "kwargs", "\"", ":", " ",
      "{", "}", ",", " ", "\"", "data", "\"", ":", " ", "[", "]", "}">>

-----------------------------------------------------------------------------
(* What callers and peers send *)

\* commands, topics, payloads and ids a caller passes to request()
ReqCommands == {<<"p", "i", "n", "g">>}
ReqTopics == {Str(<<"t", "1">>)}
ReqPayloads == {Str(<<"h", "i">>), Str(<<"U+C3", "U+A9">>), Str(<<"U+E9">>),
                Str(<<"{", "\"", "a", "\"", ":", "1", "}">>),
                Dict(<<"{", "\"", "a", "\"", ":", " ", "1", "}">>),
                RawBytes(<<"h", "i">>), Producer(<<"h", "i">>)}
ReqIds == {"id1"}

\* the socket writes of one request(); 0 stands for no failure
Writes == 0..4

\* a JSON object on the wire that lacks the key k
Without(k) ==
    LET full == [id |-> "id1", timestamp |-> 0, topic |-> Str(<<"t", "1">>),
                 payload |-> Str(<<"h", "i">>)]
    IN  [key \in DOMAIN full \ {k} |-> full[key]]

\* a well-formed message on the wire
WireMsg(topic, payload) ==
    B64([id |-> "id1", timestamp |-> 0, topic |-> Str(topic), payload |-> Str(payload)])

Line(text) == Bytes(text) \o CRLF

GoodBody == CRLF \o <<WireMsg(<<"t", "1">>, <<"h", "i">>)>> \o CRLF

\* the status line of a success, as far as the reason
StatusOK == CMIT_1_0 \o <<" ", "2", "0", "0", " ">>

\* a line of n bytes in all: the text, '?' up to the length, '\r\n'
FilledLine(text, n) == Bytes(text) \o <<Pad(n - Len(text) - 2)>> \o CRLF

\* replies a peer that is not the CMIT server may send
MockReplies ==
    { Line(CMIT_1_0 \o <<" ", "2", "0", "0", " ", "O", "K">>) \o GoodBody,
      Line(CMIT_1_0 \o <<" ", "1", "0", "2", " ", "Processing">>) \o GoodBody,
      Line(CMIT_1_0 \o <<" ", "4", "0", "3">>) \o GoodBody,
      Line(CMIT_1_0 \o <<" ", "1", "0", "0", " ", "Continue">>)
          \o Line(CMIT_1_0 \o <<" ", "2", "0", "2", " ", "Accepted">>) \o GoodBody,
      Line(<<"C", "M", "I", "T", "/", "2", ".", "0", " ", "2", "0", "0", " ", "O", "K">>)
          \o GoodBody,
      Line(<<"C", "M", "I", "T", "/", "1", ".", "1", " ", "2", "0", "0", " ", "O", "K">>)
          \o GoodBody,
      Line(<<"H", "T", "T", "P", "/", "1", ".", "0", " ", "2", "0", "0", " ", "O", "K">>)
          \o GoodBody,
      Line(CMIT_1_0 \o <<" ", "a", "b", "c", " ", "O", "K">>) \o GoodBody,
      Line(CMIT_1_0 \o <<" ", "2", "0", "0", " ", "O", "K">>) \o Line(<<"x">>)
          \o <<WireMsg(<<"t", "1">>, <<"h", "i">>)>> \o CRLF,
      Line(CMIT_1_0 \o <<" ", "2", "0", "0", " ", "O", "K">>) \o CRLF
          \o <<B64([invalid |-> TRUE])>> \o CRLF,
      Line(CMIT_1_0 \o <<" ", "2", "0", "0", " ", "O", "K">>) \o CRLF,
      <<Pad(MAXLINE + 1)>> \o CRLF \o GoodBody,
      Line(CMIT_1_0 \o <<" ", "1", "0", "0", " ", "Continue">>) \o GoodBody,
      Line(StatusOK \o <<"O", "K">>) \o GoodBody
          \o Line(CMIT_1_0 \o <<" ", "4", "0", "3">>) \o GoodBody,
      FilledLine(StatusOK, MAXLINE) \o GoodBody,
      FilledLine(StatusOK, MAXLINE + 1) \o GoodBody,
      FilledLine(StatusOK \o <<"xC3", "xA9">>, MAXLINE + 1) \o GoodBody,
      FilledLine(StatusOK \o <<"xC3", "xA9">>, MAXLINE + 2) \o GoodBody,
      Line(StatusOK) \o FilledLine(<<>>, MAXLINE + 1)
          \o <<WireMsg(<<"t", "1">>, <<"h", "i">>)>> \o CRLF,
      Line(StatusOK) \o CRLF
          \o <<WireMsg(<<"t", "1">>, <<"h", "i">>), Pad(MAXLINE - 2 - B64Len)>> \o CRLF,
      Line(StatusOK) \o CRLF
          \o <<WireMsg(<<"t", "1">>, <<"h", "i">>), Pad(MAXLINE - 1 - B64Len)>> \o CRLF,
      <<>> }

-----------------------------------------------------------------------------
(* The client connection: one CMITConnection, its sockets and their peers *)

NoCall == [op |-> "none", exc |-> "none", pre_state |-> CS_IDLE, pre_sock |-> 0,
           pre_held |-> ClosedSock, path |-> <<>>, wrote |-> <<>>, resp |-> NoResponse,
           args |-> <<>>]

Call(op, exc, path, wrote, resp, args) ==
    [op |-> op, exc |-> exc, pre_state |-> state, pre_sock |-> sock, pre_held |-> Held(socks, sock),
     path |-> path, wrote |-> wrote, resp |-> resp, args |-> args]

NoServer == [pc |-> "idle", req |-> <<>>, h |-> NewHandler(<<>>), reply |-> NoResponse]

\* no message yet: given what the caller passed, m the message built, line the
\* bytes m() gave or the wire delivered, out what parse_message made of them
NoCodec == [pc |-> "idle", given |-> <<>>, m |-> [exc |-> "none", m |-> NoMsg],
            line |-> [exc |-> "none", b |-> <<>>], out |-> [exc |-> "none", m |-> NoMsg]]

\* no call on the session yet
NoSessionCall ==
    [op |-> "none", exc |-> "none", adapter |-> 0, uri |-> <<>>, conn |-> 0, events |-> <<>>,
     target |-> <<>>, resp |-> NoReply, pre_pooled |-> 0, up |-> FALSE, fault |-> "none",
     command |-> <<>>, given |-> "", msg_id |-> "None", wrote |-> <<>>]

\* Session.__init__: the default adapter mounted on cmit://; no adapter holds a
\* connection
NoSession ==
    [adapters |-> mount(<<>>, <<"c", "m", "i", "t", ":", "/", "/">>, 1),
     pool |-> [a \in 1..NumAdapters |-> 0], conns |-> <<>>,
     last |-> NoSessionCall]

\* UNIXServer.task_router = {}; no request handled yet.  executed counts, by
\* topic, the EXECUTE requests answered so far.
NoTasks ==
    [task_router |-> <<>>, handled |-> 0, executed |-> <<>>,
     last |-> [command |-> <<>>, topic |-> <<>>, h |-> NewHandler(<<>>)]]

\* no connection accepted: each thread's handler object, the attributes set on
\* it (attrs), the locals of cmit_response's wrapper
NoThreads ==
    [pc |-> [c \in 1..NumThreads |-> "idle"],
     req |-> [c \in 1..NumThreads |-> <<>>],
     h |-> [c \in 1..NumThreads |-> NewHandler(<<>>)],
     attrs |-> [c \in 1..NumThreads |-> [buf |-> <<>>, msg |-> NoMsg]],
     status |-> [c \in 1..NumThreads |-> 0],
     body |-> [c \in 1..NumThreads |-> <<>>],
     overlapped |-> FALSE]

\* UNIXServer.task_router = {} and no list made yet; no connection accepted.
\* ref is the list a thread's get_task_queue returned (0: none yet), answered
\* counts, by topic, the EXECUTE requests whose handler has ended.
NoWorkers ==
    [task_router |-> <<>>, lists |-> <<>>, accepted |-> 0, answered |-> <<>>,
     pc |-> [c \in 1..NumThreads |-> "idle"],
     command |-> [c \in 1..NumThreads |-> <<>>],
     topic |-> [c \in 1..NumThreads |-> <<>>],
     ref |-> [c \in 1..NumThreads |-> 0],
     depth |-> [c \in 1..NumThreads |-> 0],
     before |-> [c \in 1..NumThreads |-> 0],
     alone |-> [c \in 1..NumThreads |-> TRUE]]

Init ==
    /\ state = CS_IDLE
    /\ sock = 0
    /\ response = 0
    /\ socks = <<>>
    /\ last = NoCall
    /\ srv = NoServer
    /\ codec = NoCodec
    /\ session = NoSession
    /\ tasks = NoTasks
    /\ threads = NoThreads
    /\ workers = NoWorkers

\* CMITConnection.connect: a new socket replaces self.sock, or the connect fails
Connect ==
    /\ Len(socks) < MaxSocks
    /\ \E ok \in BOOLEAN :
        /\ socks' = IF ~ok THEN socks
                    ELSE IF sock = 0 THEN Append(socks, NewSock)
                    ELSE Append([socks EXCEPT ![sock] = Unreferenced(socks[sock])], NewSock)
        /\ sock' = IF ok THEN Len(socks) + 1 ELSE sock
        /\ last' = Call("connect", IF ok THEN "none" ELSE "OSError", <<>>, <<>>, NoResponse, <<>>)
    /\ UNCHANGED <<state, response, srv, codec, session, tasks, threads, workers>>

\* CMITConnection.request
Request ==
    \E command \in ReqCommands, topic \in ReqTopics, payload \in ReqPayloads,
       msg_id \in ReqIds, failAt \in Writes :
        \E r \in {send_request(state, sock, command, topic, payload, msg_id, failAt)} :
        /\ state' = r.state
        /\ socks' = IF r.wrote = <<>> THEN socks
                    ELSE [socks EXCEPT ![sock].wr = socks[sock].wr \o r.wrote]
        /\ last' = Call("request", r.exc, r.path, r.wrote, NoResponse,
                        <<command, topic, payload, msg_id>>)
        /\ UNCHANGED <<sock, response, srv, codec, session, tasks, threads, workers>>

\* CMITConnection.getresponse
GetResponse ==
    \E r \in {getresponse(state, sock, response, socks)} :
    /\ state' = r.state
    /\ sock' = r.sock
    /\ socks' = r.socks
    /\ response' = r.response
    /\ last' = Call("getresponse", r.exc, r.path, <<>>, r.resp, <<>>)
    /\ UNCHANGED <<srv, codec, session, tasks, threads, workers>>

\* the caller calls begin() on the response getresponse() returned
BeginAgain ==
    /\ last.op \in {"getresponse", "begin"}
    /\ last.exc = "none"
    /\ \E r \in {begin_on(last.resp)} :
        last' = Call("begin", r.exc, <<>>, <<>>, r, <<>>)
    /\ UNCHANGED <<state, sock, response, socks, srv, codec, session, tasks, threads, workers>>

\* CMITConnection.close
Close ==
    /\ state' = CS_IDLE
    /\ sock' = 0
    /\ socks' = CloseSock(socks, sock)
    /\ response' = 0
    /\ last' = Call("close", "none", <<Step(CS_IDLE, "close")>>, <<>>, NoResponse, <<>>)
    /\ UNCHANGED <<srv, codec, session, tasks, threads, workers>>

\* the CMIT server answers the request the connection wrote, and closes
Serve ==
    /\ sock # 0
    /\ ~socks[sock].answered
    /\ Len(Lines(socks[sock].wr)) >= 3
    /\ socks' = [socks EXCEPT ![sock].rd = handle(socks[sock].wr).wfile,
                              ![sock].answered = TRUE]
    /\ last' = [NoCall EXCEPT !.op = "peer"]
    /\ UNCHANGED <<state, sock, response, srv, codec, session, tasks, threads, workers>>

\* some other peer answers, and closes
MockServe ==
    /\ sock # 0
    /\ ~socks[sock].answered
    /\ socks[sock].wr # <<>>
    /\ \E reply \in MockReplies :
        socks' = [socks EXCEPT ![sock].rd = reply, ![sock].answered = TRUE]
    /\ last' = [NoCall EXCEPT !.op = "peer"]
    /\ UNCHANGED <<state, sock, response, srv, codec, session, tasks, threads, workers>>

\* the peer resets the connection
PeerReset ==
    /\ sock # 0
    /\ ~socks[sock].answered
    /\ ~socks[sock].reset
    /\ socks[sock].wr # <<>>
    /\ socks' = [socks EXCEPT ![sock].reset = TRUE]
    /\ last' = [NoCall EXCEPT !.op = "peer"]
    /\ UNCHANGED <<state, sock, response, srv, codec, session, tasks, threads, workers>>

Next ==
    \/ Connect \/ Request \/ GetResponse \/ BeginAgain \/ Close
    \/ Serve \/ MockServe \/ PeerReset

Spec == Init /\ [][Next]_vars

-----------------------------------------------------------------------------
(* The server side: one accepted connection, fed by any client at all, and    *)
(* the library's response parser reading what the handler wrote.              *)

\* request control lines, without the line ending
ControlLines ==
    { PING \o <<" ">> \o CMIT_1_0,
      PING \o <<" ", "C", "M", "I", "T", "/", "1", ".", "1">>,
      EXECUTE \o <<" ">> \o CMIT_1_0,
      POLL \o <<" ">> \o CMIT_1_0,
      <<"F", "O", "O", " ">> \o CMIT_1_0,
      <<"p", "i", "n", "g", " ">> \o CMIT_1_0,
      PING \o <<" ", " ">> \o CMIT_1_0 \o <<" ">>,
      PING,
      <<" ", " ">>,
      <<>>,
      PING \o <<" ", "x", " ">> \o CMIT_1_0,
      PING \o <<" ", "x", " ", "C", "M", "I", "T", "/", "9">>,
      PING \o <<" ", "C", "M", "I", "T", "/", "2", ".", "0">>,
      PING \o <<" ", "C", "M", "I", "T", "/", "1">>,
      PING \o <<" ", "C", "M", "I", "T", "/", "1", ".", "0", "0", "0", "0">>,
      PING \o <<" ", "C", "M", "I", "T", "/", "a", ".", "b">>,
      PING \o <<" ", "C", "M", "I", "T", "/", "xE9", ".", "0">>,
      PING \o <<" ", "H", "T", "T", "P", "/", "1", ".", "0">>,
      PING \o <<" ", "C", "M", "I", "T", "/", "0", ".", "9">>,
      PING \o <<" ", "C", "M", "I", "T", "/", "1", ".", "9", "9", "9">>,
      PING \o <<" ", "C", "M", "I", "T", "/", "1", ".">>,
      PING \o <<" ", "C", "M", "I", "T", "/", "1", ".", "0", ".", "0">>,
      PING \o <<" ", "C", "M", "I", "T", "/", "1", "0", ".", "0">>,
      PING \o <<" ", "c", "m", "i", "t", "/", "1", ".", "0">> }

\* what may follow the control line
Bodies ==
    { GoodBody,
      CRLF \o <<WireMsg(<<"t", "1">>, <<"U+E9">>)>> \o CRLF,
      CRLF \o <<WireMsg(<<"U+E9">>, <<"h", "i">>)>> \o CRLF,
      CRLF \o <<WireMsg(<<"t", "1">>, <<"{", "\"", "a", "\"", ":", "1", "}">>)>> \o CRLF,
      Line(<<"x">>) \o <<WireMsg(<<"t", "1">>, <<"h", "i">>)>> \o CRLF,
      CRLF \o <<B64([invalid |-> TRUE])>> \o CRLF,
      CRLF \o <<B64(Without("payload"))>> \o CRLF,
      CRLF \o <<B64(Without("topic"))>> \o CRLF,
      CRLF \o Line(<<"a", "b", "c", "d", "e">>),
      CRLF \o CRLF,
      CRLF,
      CRLF \o <<Stall>>,
      <<Stall>>,
      <<>> }

\* the byte streams a client may send before it shuts down its side or falls silent
RawRequests ==
    {Line(c) \o b : c \in ControlLines, b \in Bodies}
        \cup { <<>>, <<Pad(MAXLINE + 1)>> \o CRLF \o GoodBody,
                <<Stall>>, Bytes(<<"P", "I", "N">>) \o <<Stall>>,
                Line(PING \o <<" ">> \o CMIT_1_0) \o GoodBody
                    \o Line(PING \o <<" ">> \o CMIT_1_0) \o GoodBody }

\* a connection is accepted and the client's bytes arrive
Accept ==
    /\ srv.pc = "idle"
    /\ \E req \in RawRequests : srv' = [srv EXCEPT !.pc = "accepted", !.req = req]
    /\ UNCHANGED <<state, sock, response, socks, last, codec, session, tasks, threads, workers>>

\* BaseCMITRequestHandler.handle runs on the connection
Handle ==
    /\ srv.pc = "accepted"
    /\ srv' = [srv EXCEPT !.pc = "handled", !.h = handle(srv.req)]
    /\ UNCHANGED <<state, sock, response, socks, last, codec, session, tasks, threads, workers>>

\* the client reads the reply with CMITResponse.begin
ClientBegin ==
    /\ srv.pc = "handled"
    /\ srv' = [srv EXCEPT !.pc = "read", !.reply = begin(srv.h.wfile)]
    /\ UNCHANGED <<state, sock, response, socks, last, codec, session, tasks, threads, workers>>

ServerNext == Accept \/ Handle \/ ClientBegin

ServerSpec == Init /\ [][ServerNext]_vars

-----------------------------------------------------------------------------
(* The codec alone: a message is built, serialised by m() and parsed back by  *)
(* CMITMessage.parse_message; or a line arrives from the wire and is parsed.  *)

\* topics, payloads and ids a caller builds a message from
CodecTopics == {Str(<<"t", "1">>), Str(<<"U+E9">>)}
CodecPayloads ==
    { Str(<<"h", "i">>), Str(<<>>),
      Str(<<"{", "\"", "a", "\"", ":", "1", "}">>),
      Str(<<"{", "\"", "a", "\"", ":", " ", "1", "}">>),
      Str(<<"{", "x">>),
      Str(<<" ", "{", "x">>),
      Str(<<"U+E9">>), Str(<<"U+C3", "U+A9">>), Str(<<"U+20AC">>),
      Dict(<<"{", "\"", "a", "\"", ":", " ", "1", "}">>),
      RawBytes(<<"h", "i">>), Producer(<<"h", "i">>) }
CodecIds == {"id1", "id2"}

\* message lines as the wire may deliver them
WireLines ==
    { <<WireMsg(<<"t", "1">>, <<"h", "i">>)>> \o CRLF,
      <<B64(Without("id"))>> \o CRLF,
      <<B64(Without("timestamp"))>> \o CRLF,
      <<B64(Without("topic"))>> \o CRLF,
      <<B64(Without("payload"))>> \o CRLF,
      <<B64([invalid |-> TRUE])>> \o CRLF,
      Line(<<"a", "b", "c", "d", "e">>),
      <<WireMsg(<<"t", "1">>, <<"h", "i">>), Pad(8)>> \o CRLF,
      <<>> }

\* CMITMessage(topic, msg_id=msg_id), then m.payload = payload
Build ==
    /\ codec.pc = "idle"
    /\ \E topic \in CodecTopics, payload \in CodecPayloads, msg_id \in CodecIds :
        \E c \in {CMITMessage(topic, msg_id)} :
            codec' = [codec EXCEPT !.pc = "built",
                                   !.given = <<topic, payload, msg_id>>,
                                   !.m = IF c.exc # "none" THEN c ELSE SetPayload(c.m, payload)]
    /\ UNCHANGED <<state, sock, response, socks, last, srv, session, tasks, threads, workers>>

\* m(): the message line, which the sender ends with '\r\n'
Encode ==
    /\ codec.pc = "built"
    /\ codec.m.exc = "none"
    /\ \E l \in {MessageCall(codec.m.m)} :
        codec' = [codec EXCEPT !.pc = "encoded",
                               !.line = [exc |-> l.exc,
                                         b |-> IF l.exc = "none" THEN l.b \o CRLF ELSE <<>>]]
    /\ UNCHANGED <<state, sock, response, socks, last, srv, session, tasks, threads, workers>>

\* a message line arrives from a peer
Receive ==
    /\ codec.pc = "idle"
    /\ \E l \in WireLines :
        codec' = [codec EXCEPT !.pc = "encoded", !.line = [exc |-> "none", b |-> l]]
    /\ UNCHANGED <<state, sock, response, socks, last, srv, session, tasks, threads, workers>>

\* CMITMessage.parse_message(line)
Decode ==
    /\ codec.pc = "encoded"
    /\ codec.line.exc = "none"
    /\ codec' = [codec EXCEPT !.pc = "decoded", !.out = CMITMessage_parse_message(codec.line.b)]
    /\ UNCHANGED <<state, sock, response, socks, last, srv, session, tasks, threads, workers>>

CodecNext == Build \/ Encode \/ Receive \/ Decode

CodecSpec == Init /\ [][CodecNext]_vars

-----------------------------------------------------------------------------
(* The session: mounts, lookups, requests through adapters whose target is    *)
(* served by SimpleCMITRequestHandler, and calls on the adapters themselves.  *)

Cmit == <<"c", "m", "i", "t", ":", "/", "/">>

\* the socket files that exist
Files == {<<"/", "s", "/", "x">> \o DotSock, <<"/", "o", "/", "y">> \o DotSock}

\* prefixes a caller mounts
MountPrefixes == {Cmit, Cmit \o <<"/", "s", "/">>, Upper(Cmit)}

\* locators a caller looks up
Locators ==
    {Cmit \o <<"/", "s", "/", "x">> \o DotSock, Cmit \o <<"/", "o", "/", "y">> \o DotSock,
     Upper(Cmit \o <<"/", "s", "/", "x">>) \o DotSock,
     <<"c", "m", "i", "t", "x", ":", "/", "/", "/", "s", "/", "x">> \o DotSock,
     <<"u", "n", "i", "x", ":", "/", "/", "/", "s", "/", "x">> \o DotSock,
     <<"/", "s", "/", "x">> \o DotSock}

\* targets a caller names in a request
Targets ==
    {Cmit \o <<"s", "/", "x">> \o DotSock, Cmit \o <<"o", "/", "y">>,
     Cmit \o <<"s", "/", "n">> \o DotSock,
     <<"/", "s", "/", "x">> \o DotSock,
     <<"u", "n", "i", "x", ":", "/", "/", "s", "/", "x">> \o DotSock,
     <<"c", "m", "i", "t", "x", ":", "/", "/", "s", "/", "x">> \o DotSock}

\* locators given to get_connection
PoolTargets ==
    {Cmit \o <<"/", "s", "/", "x">> \o DotSock, Cmit \o <<"s", "/", "x">>,
     Cmit \o <<"/", "o", "/", "y">> \o DotSock, Cmit \o <<"/", "s", "/", "n">> \o DotSock}

SessionCall(op, exc, adapter, uri, conn, events, target, resp, up) ==
    [op |-> op, exc |-> exc, adapter |-> adapter, uri |-> uri, conn |-> conn,
     events |-> events, target |-> target, resp |-> resp,
     pre_pooled |-> IF adapter = 0 THEN 0 ELSE session.pool[adapter], up |-> up,
     fault |-> "none", command |-> <<>>, given |-> "", msg_id |-> "None", wrote |-> <<>>]

\* what may go wrong in an exchange with a server that listens: nothing, the
\* write of the message fails, or the peer answers with a status line of
\* version CMIT/2.0
Faults == {"none", "write", "reply"}

\* the reply of a peer that answers with version CMIT/2.0
BadVersionReply ==
    Line(<<"C", "M", "I", "T", "/", "2", ".", "0", " ", "2", "0", "0", " ", "O", "K">>) \o GoodBody

\* the msg_id keyword of CMITAdapter.send: absent, None, or an id of the caller
NotGiven == "<absent>"
NoneId == "None"
GivenIds == {NotGiven, NoneId, "id1"}

\* an adapter that sends every request under an id it draws
request_msg_id_drawn(given) == "drawn by send"

\* the id CMITAdapter.send hands to _send_request: kwargs.get("msg_id", <a draw>),
\* which CMITConnection.request replaces by a draw of its own when it is None
request_msg_id(given) ==
    IF given = NotGiven THEN "drawn by send"
    ELSE IF given = NoneId THEN "drawn by request"
    ELSE given

\* CMITAdapter.send(request, msg_id=given) on adapter a, statement by statement:
\* get_connection, connect, request, request.msg_id assigned, the server's answer,
\* getresponse, build_response.  op, uri and events are the caller's call, kept in
\* session.last with the request's command and msg_id and what was written.
adapter_send(a, request, given, up, fault, op, uri, events) ==
    \E g \in {get_connection(session.pool[a], request.socket_path, session.conns, Files)} :
    \E c \in {IF g.exc # "none" \/ ~up THEN Skipped ELSE conn_connect(g.conns[g.conn])} :
    \E r \in {IF c = Skipped THEN Skipped
              ELSE send_request(c.state, c.sock, request.command, Str(request.topic),
                                Str(request.payload), request_msg_id(given),
                                IF fault = "write" THEN 3 ELSE 0)} :
    \E wfile \in {IF r.exc # "none" THEN <<>>
                  ELSE IF fault = "reply" THEN BadVersionReply
                  ELSE handle(r.wrote).wfile} :
    \E gr \in {IF r.exc # "none" THEN Skipped
               ELSE getresponse(r.state, c.sock, c.response,
                                Answered(Requested(c, r), wfile))} :
    \E b \in {IF gr.exc # "none" THEN Skipped ELSE build_response(gr.resp)} :
    \E sent \in {send_outcome(g, up, c, r, gr, b)} :
        session' = [session EXCEPT
                       !.pool[a] = g.pooled, !.conns = sent.conns,
                       !.last = [SessionCall(op, sent.exc, a, uri, g.conn,
                                             events \o sent.events, g.target, sent.resp, up)
                                    EXCEPT !.fault = fault, !.command = request.command,
                                           !.given = given,
                                           !.msg_id = IF r.exc = "none"
                                                      THEN request_msg_id(given)
                                                      ELSE "None",
                                           !.wrote = IF c = Skipped THEN <<>>
                                                     ELSE r.wrote]]

\* Session.mount
Mount ==
    \E prefix \in MountPrefixes, a \in 1..NumAdapters :
        session' = [session EXCEPT
                       !.adapters = mount(session.adapters, prefix, a),
                       !.last = [NoSessionCall EXCEPT !.op = "mount", !.uri = prefix,
                                                      !.adapter = a]]
        /\ UNCHANGED <<state, sock, response, socks, last, srv, codec, tasks, threads, workers>>

\* Session.get_adapter
GetAdapter ==
    \E uri \in Locators :
        \E r \in {get_adapter(session.adapters, uri)} :
        session' = [session EXCEPT
                       !.last = [NoSessionCall EXCEPT !.op = "get_adapter", !.uri = uri,
                                                      !.exc = r.exc, !.adapter = r.adapter]]
        /\ UNCHANGED <<state, sock, response, socks, last, srv, codec, tasks, threads, workers>>

\* Session.ping(fp): Session.request('PING', fp, 'ping'), that is the request
\* prepared, the adapter looked up, adapter.send
Ping ==
    /\ Len(session.conns) < MaxRouted
    /\ \A i \in DOMAIN session.conns : Len(session.conns[i].socks) < MaxSends
    /\ \E fp \in Targets, up \in BOOLEAN :
        \E p \in {prepare_socket_path(fp, Files)} :
        \E to \in {IF p.exc # "none" THEN [exc |-> p.exc, adapter |-> 0]
                   ELSE get_adapter(session.adapters, p.socket_path)} :
            IF to.exc # "none"
            THEN session' = [session EXCEPT
                                !.last = SessionCall("ping", to.exc, 0, fp, 0, <<>>, <<>>,
                                                     NoReply, up)]
            ELSE adapter_send(to.adapter,
                              [command |-> Upper(PING), socket_path |-> p.socket_path,
                               topic |-> <<"p", "i", "n", "g">>, payload |-> prepare_payload],
                              NotGiven, up, "none", "ping", fp,
                              <<Ev("send", to.adapter)>>)
    /\ UNCHANGED <<state, sock, response, socks, last, srv, codec, tasks, threads, workers>>

\* CMITAdapter.get_connection, called on an adapter
GetConnection ==
    /\ Len(session.conns) < MaxConns
    /\ \E a \in 1..NumAdapters, fp \in PoolTargets :
        \E r \in {get_connection(session.pool[a], fp, session.conns, Files)} :
        session' = [session EXCEPT
                       !.pool[a] = r.pooled, !.conns = r.conns,
                       !.last = SessionCall("get_connection", r.exc, a, fp, r.conn,
                                            r.events, r.target, NoReply, FALSE)]
    /\ UNCHANGED <<state, sock, response, socks, last, srv, codec, tasks, threads, workers>>

\* CMITAdapter.close
AdapterClose ==
    \E a \in 1..NumAdapters :
        /\ session' = [session EXCEPT
                          !.pool[a] = 0,
                          !.conns = IF session.pool[a] = 0 THEN session.conns
                                    ELSE [session.conns EXCEPT ![session.pool[a]] =
                                              conn_close(session.conns[session.pool[a]])],
                             !.last = [NoSessionCall EXCEPT
                                       !.op = "close", !.adapter = a,
                                       !.pre_pooled = session.pool[a],
                                       !.events = IF session.pool[a] = 0 THEN <<>>
                                                  ELSE <<Ev("close", session.pool[a])>>]]
        /\ UNCHANGED <<state, sock, response, socks, last, srv, codec, tasks, threads, workers>>

\* CMITAdapter.send of a prepared PING, called on an adapter
AdapterSend ==
    /\ Len(session.conns) < MaxConns
    /\ \A i \in DOMAIN session.conns : Len(session.conns[i].socks) < MaxSends
    /\ \E a \in 1..NumAdapters, fp \in PoolTargets, up \in BOOLEAN, fault \in Faults :
        /\ ~up => fault = "none"
        /\ adapter_send(a, [command |-> PING, socket_path |-> fp,
                            topic |-> <<"p", "i", "n", "g">>, payload |-> prepare_payload],
                        NotGiven, up, fault, "send", fp, <<>>)
    /\ UNCHANGED <<state, sock, response, socks, last, srv, codec, tasks, threads, workers>>

\* the commands of the requests given to CMITAdapter.send, and the topics
SendCommands == {PING, EXECUTE, POLL}
SendTopics == {<<"q">>}

\* locators of the two sockets that exist
ExchangeTargets ==
    {Cmit \o <<"/", "s", "/", "x">> \o DotSock, Cmit \o <<"/", "o", "/", "y">> \o DotSock}

\* CMITAdapter.send(request, msg_id=given) of a prepared PING, EXECUTE or POLL,
\* called on an adapter
AdapterSendAs ==
    /\ Len(session.conns) < MaxExchangeConns
    /\ \A i \in DOMAIN session.conns : Len(session.conns[i].socks) < MaxSends
    /\ \E a \in 1..NumAdapters, fp \in ExchangeTargets, up \in BOOLEAN,
          command \in SendCommands, topic \in SendTopics, given \in GivenIds :
        adapter_send(a, [command |-> command, socket_path |-> fp,
                         topic |-> topic, payload |-> prepare_payload],
                     given, up, "none", "send", fp, <<>>)
    /\ UNCHANGED <<state, sock, response, socks, last, srv, codec, tasks, threads, workers>>

SessionNext == Mount \/ GetAdapter \/ Ping

\* a session and what callers do with it
SessionSpec == Init /\ [][SessionNext]_vars

PoolNext == GetConnection \/ AdapterSend \/ AdapterClose

\* the adapters of a session and what callers do with them
PoolSpec == Init /\ [][PoolNext]_vars

ExchangeNext == AdapterSendAs \/ AdapterClose

\* the adapters of a session sending PING, EXECUTE and POLL requests under ids
ExchangeSpec == Init /\ [][ExchangeNext]_vars

-----------------------------------------------------------------------------
(* The serial server of demo/echo-server.py: UNIXServer with TaskHandler, one  *)
(* connection handled to its end before the next is accepted.                 *)

\* the bytes request(command, topic, 'hi') writes
ClientRequest(command, topic) ==
    send_request(CS_IDLE, 1, command, Str(topic), Str(<<"h", "i">>), "id1", 0).wrote

\* what clients send: requests written by CMITConnection on the topics q and r,
\* an EXECUTE whose body is not a message, and an EXECUTE and a POLL whose
\* topic is U+00E9
TaskRequests ==
    {[command |-> c, topic |-> t, rfile |-> ClientRequest(c, t)] :
        c \in {PING, EXECUTE, POLL}, t \in {<<"q">>, <<"r">>}}
    \cup {[command |-> EXECUTE, topic |-> <<"q">>,
           rfile |-> Line(EXECUTE \o <<" ">> \o CMIT_1_0) \o CRLF \o Line(<<"x">>) \o CRLF]}
    \cup {[command |-> c, topic |-> <<"U+E9">>,
           rfile |-> Line(c \o <<" ">> \o CMIT_1_0) \o CRLF
                     \o <<WireMsg(<<"U+E9">>, <<"h", "i">>)>> \o CRLF \o CRLF] :
            c \in {EXECUTE, POLL}}

\* the handler object of one connection of the serial server
TaskHandler(rfile, task_router) ==
    [NewHandler(rfile) EXCEPT !.close_connection = TRUE, !.cls = "TaskHandler",
                              !.task_router = task_router]

\* an EXECUTE was handled: do_EXECUTE ran and its response was written
Handled(h) == h.exc = "none" /\ h.calls = <<EXECUTE>>

\* the server accepts a connection, TaskHandler handles its request, the
\* connection is closed
TaskServe ==
    /\ tasks.handled < MaxTasks
    /\ \E req \in TaskRequests :
        \E h \in {handle_loop(TaskHandler(req.rfile, tasks.task_router))} :
        tasks' = [task_router |-> h.task_router,
                  handled |-> tasks.handled + 1,
                  executed |-> IF Handled(h)
                               THEN [t \in DOMAIN tasks.executed \cup {req.topic} |->
                                        IF t = req.topic
                                        THEN (IF t \in DOMAIN tasks.executed
                                              THEN tasks.executed[t] ELSE 0) + 1
                                        ELSE tasks.executed[t]]
                               ELSE tasks.executed,
                  last |-> [command |-> req.command, topic |-> req.topic, h |-> h]]
    /\ UNCHANGED <<state, sock, response, socks, last, srv, codec, session, threads, workers>>

QueueNext == TaskServe

QueueSpec == Init /\ [][QueueNext]_vars

-----------------------------------------------------------------------------
(* The threading server: ThreadingCMITServer gives every accepted connection   *)
(* a thread and a handler object of its own.  A thread may be preempted        *)
(* between any two statements of cmit_response's wrapper; what a handler sets  *)
(* with self.x = ... lives on the object AttrOf names.                         *)

\* an attribute kept on the class, shared by every handler
SharedAttr(c) == 1

\* the object that holds the attributes handler c sets on self: the handler
\* itself (_response_buffer, request_msg)
AttrOf(c) == c

\* what clients send on the connections
ThreadRequests ==
    {[command |-> c, topic |-> t[1], id |-> t[2],
      rfile |-> send_request(CS_IDLE, 1, c, Str(t[1]), Str(<<"h", "i">>), t[2], 0).wrote] :
        c \in {PING, POLL}, t \in {<<<<"t", "1">>, "id1">>, <<<<"t", "2">>, "id2">>}}
    \cup {[command |-> <<"N", "O", "P", "E">>, topic |-> <<"t", "1">>, id |-> "id1",
           rfile |-> send_request(CS_IDLE, 1, <<"N", "O", "P", "E">>, Str(<<"t", "1">>),
                                  Str(<<"h", "i">>), "id1", 0).wrote]}

\* handler c with its attributes read from where they live
Load(c) ==
    [threads.h[c] EXCEPT !.buf = threads.attrs[AttrOf(c)].buf,
                         !.msg = threads.attrs[AttrOf(c)].msg]

\* thread c has run up to pc, leaving its handler as h; another thread was
\* in the middle of a request meanwhile or not
Ran(c, h, pc) ==
    [threads EXCEPT
        !.h[c] = [h EXCEPT !.buf = <<>>, !.msg = NoMsg],
        !.attrs[AttrOf(c)] = [buf |-> h.buf, msg |-> h.msg],
        !.pc[c] = pc,
        !.overlapped = threads.overlapped
                       \/ \E d \in 1..NumThreads \ {c} : threads.pc[d] \notin {"idle", "done"}]

\* handle_one_request as far as the call of the do_ method: the request line
\* read and parsed, the body parsed
received(h) ==
    LET line(r) ==
            parse_body(parse_request([h EXCEPT !.rfile = r[2], !.requests = h.requests + 1],
                                     r[1]))
    IN  line(ReadLine(h.rfile, MAXLINE + 1))

\* process_request: a thread and a handler for a new connection
ThreadAccept(c) ==
    /\ threads.pc[c] = "idle"
    /\ \E req \in ThreadRequests :
        threads' = [threads EXCEPT
                       !.req[c] = req,
                       !.h[c] = [NewHandler(req.rfile) EXCEPT !.close_connection = TRUE],
                       !.pc[c] = "read"]

\* the request is read and parsed; one that is refused is answered here
ThreadReceive(c) ==
    /\ threads.pc[c] = "read"
    /\ \E whole \in {handle_one_request(Load(c))} :
        threads' = IF whole.calls = <<>> THEN Ran(c, whole, "done")
                   ELSE Ran(c, received(Load(c)), "method")

\* the wrapper logs the message, calls the do_ method and encodes its message
ThreadMethod(c) ==
    /\ threads.pc[c] = "method"
    /\ \E logged \in {as_string(Load(c).msg)}, r \in {Method(Load(c))} :
        \E body \in {as_string(r.m)} :
        threads' =
            IF logged.exc # "none" THEN Ran(c, [Load(c) EXCEPT !.exc = logged.exc], "done")
            ELSE IF r.exc # "none" THEN Ran(c, [Load(c) EXCEPT !.exc = r.exc], "done")
            ELSE IF body.exc # "none" THEN Ran(c, [Load(c) EXCEPT !.exc = body.exc], "done")
            ELSE [Ran(c, [Load(c) EXCEPT !.calls = Append(@, Load(c).command)], "status")
                     EXCEPT !.status[c] = r.status, !.body[c] = <<B64(body.j)>>]

\* send_response: the status line appended to self._response_buffer
ThreadStatus(c) ==
    /\ threads.pc[c] = "status"
    /\ \E h \in {send_response_status(Load(c), threads.status[c], Phrase(threads.status[c]))} :
        threads' = Ran(c, h, IF h.exc # "none" THEN "done" ELSE "end")

\* end_response_line: the blank line appended to self._response_buffer
ThreadEnd(c) ==
    /\ threads.pc[c] = "end"
    /\ threads' = Ran(c, [Load(c) EXCEPT !.buf = Load(c).buf \o CRLF], "flush")

\* flush_response_line: the buffer written to wfile and emptied
ThreadFlush(c) ==
    /\ threads.pc[c] = "flush"
    /\ threads' = Ran(c, flush_response_line(Load(c)), "write")

\* the message written to wfile; the handler ends and the connection is closed
ThreadWrite(c) ==
    /\ threads.pc[c] = "write"
    /\ threads' = Ran(c, [Load(c) EXCEPT !.wfile = Load(c).wfile \o threads.body[c] \o CRLF],
                      "done")

ThreadNext ==
    /\ \E c \in 1..NumThreads :
        \/ ThreadAccept(c) \/ ThreadReceive(c) \/ ThreadMethod(c) \/ ThreadStatus(c)
        \/ ThreadEnd(c) \/ ThreadFlush(c) \/ ThreadWrite(c)
    /\ UNCHANGED <<state, sock, response, socks, last, srv, codec, session, tasks, workers>>

ThreadSpec == Init /\ [][ThreadNext]_vars

-----------------------------------------------------------------------------
(* The threading server of demo/echo-server.py: run(threading=True) mixes      *)
(* ThreadingMixIn into UNIXServer, so every connection has a thread and a     *)
(* TaskHandler of its own, while server.task_router is one dict for all.  A   *)
(* thread may be preempted between any two statements of get_task_queue and   *)
(* register_task.  Lists are objects: the dict holds the number of a list.    *)

\* the topics clients name
WorkerTopics == {<<"q">>, <<"r">>}

\* thread c is between accepting its connection and the end of its handler
Busy(c) == workers.pc[c] \notin {"idle", "done"}

\* thread c has run a statement and is at pc
At(c, pc) == [workers EXCEPT !.pc[c] = pc]

\* process_request: a thread and a TaskHandler for a new connection; the request
\* is read and parsed and do_EXECUTE or do_POLL is called
WorkerAccept(c) ==
    /\ ~Busy(c)
    /\ workers.accepted < MaxAccepted
    /\ \E command \in {EXECUTE, POLL}, topic \in WorkerTopics :
        workers' = [workers EXCEPT
            !.accepted = @ + 1,
            !.pc[c] = "has",
            !.command[c] = command,
            !.topic[c] = topic,
            !.ref[c] = 0,
            !.depth[c] = 0,
            !.before[c] = IF topic \in DOMAIN workers.answered
                          THEN workers.answered[topic] ELSE 0,
            !.alone = [d \in 1..NumThreads |->
                          IF d = c THEN \A e \in 1..NumThreads \ {c} : ~Busy(e)
                          ELSE workers.alone[d] /\ ~Busy(d)]]

\* get_task_queue: if que_name not in self.server.task_router
HasQueue(c) ==
    /\ workers.pc[c] = "has"
    /\ workers' = At(c, IF workers.topic[c] \in DOMAIN workers.task_router
                        THEN "return" ELSE "create")

\* get_task_queue: self.server.task_router[que_name] = [], a new list object
CreateQueue(c) ==
    /\ workers.pc[c] = "create"
    /\ workers' = [At(c, "return") EXCEPT
            !.lists = Append(workers.lists, <<>>),
            !.task_router = [k \in DOMAIN workers.task_router \cup {workers.topic[c]} |->
                                IF k = workers.topic[c] THEN Len(workers.lists) + 1
                                ELSE workers.task_router[k]]]

\* get_task_queue: return self.server.task_router[que_name]
ReturnQueue(c) ==
    /\ workers.pc[c] = "return"
    /\ workers' = [At(c, IF workers.command[c] = EXECUTE THEN "append" ELSE "len") EXCEPT
            !.ref[c] = workers.task_router[workers.topic[c]]]

\* register_task: .append(new_task) on the list get_task_queue returned
AppendTask(c) ==
    /\ workers.pc[c] = "append"
    /\ workers' = [At(c, "respond") EXCEPT
            !.lists[workers.ref[c]] =
                Append(@, [route |-> workers.topic[c], task_id |-> workers.accepted])]

\* do_POLL: length = len(...) of the list get_task_queue returned
CountTasks(c) ==
    /\ workers.pc[c] = "len"
    /\ workers' = [At(c, "respond") EXCEPT
            !.depth[c] = Len(workers.lists[workers.ref[c]])]

\* the do_ method returns its status and message, the response is written and
\* the handler ends
WorkerAnswer(c) ==
    /\ workers.pc[c] = "respond"
    /\ workers' = [At(c, "done") EXCEPT
            !.answered = IF workers.command[c] # EXECUTE THEN workers.answered
                         ELSE [k \in DOMAIN workers.answered \cup {workers.topic[c]} |->
                                  (IF k \in DOMAIN workers.answered
                                   THEN workers.answered[k] ELSE 0)
                                  + (IF k = workers.topic[c] THEN 1 ELSE 0)]]

WorkerNext ==
    /\ \E c \in 1..NumThreads :
        \/ WorkerAccept(c) \/ HasQueue(c) \/ CreateQueue(c) \/ ReturnQueue(c)
        \/ AppendTask(c) \/ CountTasks(c) \/ WorkerAnswer(c)
    /\ UNCHANGED <<state, sock, response, socks, last, srv, codec, session, tasks, threads>>

WorkerSpec == Init /\ [][WorkerNext]_vars

-----------------------------------------------------------------------------
(* Properties of the client connection *)

StateCycle == {<<CS_IDLE, CS_REQ_STARTED>>, <<CS_REQ_STARTED, CS_REQ_SENT>>,
               <<CS_REQ_SENT, CS_IDLE>>}

RECURSIVE PathAllowed(_, _)
\* every assignment of path, made from state a on, follows the cycle or is close()'s
PathAllowed(a, path) ==
    \/ path = <<>>
    \/ /\ \/ <<a, Head(path)[1]>> \in StateCycle
          \/ Head(path)[2] = "close" /\ Head(path)[1] = CS_IDLE
       /\ PathAllowed(Head(path)[1], Tail(path))

PathEnd(a, path) == IF path = <<>> THEN a ELSE path[Len(path)][1]

\* C1: in every step the connection state changes only by the assignments the call
\* made, and each of them goes Idle -> Request-Started, Request-Started ->
\* Request-Sent, Request-Sent -> Idle, or is close() setting Idle.
C1_StateCycle ==
    [][PathAllowed(state, last'.path) /\ state' = PathEnd(state, last'.path)]_vars

\* a response was read and the connection went Request-Sent -> Idle, then closed
C1_Witness ==
    /\ last.op = "getresponse"
    /\ last.pre_state = CS_REQ_SENT
    /\ last.path = <<Step(CS_IDLE, "getresponse"), Step(CS_IDLE, "close")>>

\* C2: getresponse() in a state other than Request-Sent raises ResponseNotReady,
\* reads nothing from the socket and leaves state and socket as they were.
C2_NotReady ==
    (last.op = "getresponse" /\ last.pre_state # CS_REQ_SENT) =>
        /\ last.exc = "ResponseNotReady"
        /\ state = last.pre_state
        /\ sock = last.pre_sock
        /\ Held(socks, sock) = last.pre_held

\* getresponse() was called on a half-written request whose socket had bytes to read
C2_Witness ==
    /\ last.op = "getresponse"
    /\ last.pre_state = CS_REQ_STARTED
    /\ sock # 0
    /\ socks[sock].rd # <<>>

\* C3: request() in a state other than Idle raises CannotSendRequest, writes no
\* byte and leaves the state as it was.
C3_CannotSend ==
    (last.op = "request" /\ last.pre_state # CS_IDLE) =>
        /\ last.exc = "CannotSendRequest"
        /\ last.wrote = <<>>
        /\ state = last.pre_state
        /\ sock = last.pre_sock
        /\ Held(socks, sock) = last.pre_held

\* a second request() after a request was sent on an open socket
C3_Witness ==
    /\ last.op = "request"
    /\ last.pre_state = CS_REQ_SENT
    /\ sock # 0
    /\ socks[sock].wr # <<>>

\* the errors the spec calls format errors, as getresponse() raises them
FormatErrors == {"BadStatusLine", "UnknownProtocol", "LineTooLong", "ValueError",
                 "UnicodeDecodeError"}

\* C4: when getresponse() fails with a transport or a format error, the socket has
\* been closed and the state is Idle.
C4_FailureCloses ==
    (last.op = "getresponse" /\ last.exc \in ConnectionErrors \cup FormatErrors) =>
        (sock = 0 /\ state = CS_IDLE)

\* C5: whenever getresponse() returns a response the socket is closed, sock is None
\* and the state is Idle.
C5_SuccessCloses ==
    (last.op = "getresponse" /\ last.exc = "none") =>
        /\ sock = 0
        /\ state = CS_IDLE
        /\ ~socks[last.pre_sock].open
        /\ response = 0

\* a response with a final status other than 200 was returned
C5_Witness ==
    /\ last.op = "getresponse"
    /\ last.exc = "none"
    /\ last.resp.status = SERVICE_UNAVAILABLE
    /\ last.resp.msg # NoMsg

\* a request control line: two words, the second the protocol version
IsRequestLine(line) ==
    LET words == SplitWs(LineBytes(line), 2) IN Len(words) = 2 /\ words[2] = CMIT_1_0

RequestLines(stream) ==
    Cardinality({k \in DOMAIN Lines(stream) : IsRequestLine(Lines(stream)[k])})

\* C6: no socket ever carries a second request line.
C6_OneInFlight == \A s \in DOMAIN socks : RequestLines(socks[s].wr) <= 1

\* a second request() was refused on a socket that carries a request
C6_Witness ==
    /\ last.op = "request"
    /\ last.exc = "CannotSendRequest"
    /\ sock # 0
    /\ RequestLines(socks[sock].wr) = 1

\* C7: a request() that returns normally has written exactly the control line
\* '<COMMAND> CMIT/1.0\r\n', a blank line '\r\n' and one message line (the base64
\* JSON of the message, then '\r\n'), and the state is Request-Sent.
C7_RequestFraming ==
    (last.op = "request" /\ last.exc = "none") =>
        LET lines == Lines(last.wrote) IN
        /\ state = CS_REQ_SENT
        /\ socks[sock].wr = last.wrote
        /\ Len(lines) = 3
        /\ lines[1] = Line(Upper(last.args[1]) \o <<" ">> \o CMIT_1_0)
        /\ lines[2] = CRLF
        /\ Len(lines[3]) = 3
        /\ IsB64(lines[3][1])
        /\ lines[3][1].b64.id = last.args[4]
        /\ lines[3][1].b64.topic = last.args[2]
        /\ SubSeq(lines[3], 2, 3) = CRLF

\* request('ping', ...) returned normally
C7_Witness ==
    /\ last.op = "request"
    /\ last.exc = "none"
    /\ last.args[1] = <<"p", "i", "n", "g">>
    /\ last.wrote # <<>>

-----------------------------------------------------------------------------
(* Properties of the server handler *)

\* the three-line framing of a response with the given code
IsResponse(stream, code) ==
    LET lines == Lines(stream) IN
    /\ Len(lines) = 3
    /\ StartsWith(LineBytes(lines[1]), CMIT_1_0 \o <<" ">> \o Fmt3(code) \o <<" ">>)
    /\ SubSeq(lines[1], Len(lines[1]) - 1, Len(lines[1])) = CRLF
    /\ lines[2] = CRLF
    /\ Len(lines[3]) = 3
    /\ IsB64(lines[3][1])
    /\ SubSeq(lines[3], 2, 3) = CRLF

\* the status lines in what the handler wrote
StatusLines(stream) ==
    Cardinality({k \in DOMAIN Lines(stream) :
                    StartsWith(LineBytes(Lines(stream)[k]), CMIT_PREFIX)})

\* C8: an error response written by send_error is a status line, an exact blank
\* line and one base64-JSON message line, so that CMITResponse.begin() obtains the
\* error status and the error message.
C8_ErrorFraming ==
    (srv.pc = "read" /\ Len(srv.h.errors) = 1 /\ srv.h.exc = "none") =>
        LET lines == Lines(srv.h.wfile) IN
        /\ Len(lines) = 3
        /\ lines[2] = CRLF
        /\ IsB64(lines[3][1])
        /\ srv.reply.exc = "none"
        /\ srv.reply.status = srv.h.errors[1]
        /\ srv.reply.msg # NoMsg

\* C9: for every request that reaches a do_ method wrapped by cmit_response, the
\* server writes exactly one response: status line, blank line, message line.
C9_OneResponse ==
    (srv.pc = "handled" /\ srv.h.calls # <<>>) =>
        \E code \in StatusCodes : IsResponse(srv.h.wfile, code)

\* the control line of the request as parse_request judges it
ControlLineFails(req) ==
    LET raw == ReadLine(req, MAXLINE + 1)[1]
        p == parse_request(NewHandler(<<>>), raw)
    IN  /\ raw # <<>>
        /\ raw # TimedOut
        /\ StreamLen(raw) <= MAXLINE
        /\ (p.exc # "none" \/ p.ret # "True")

\* C10: every non-empty control line that fails validation is answered with exactly
\* one error response.
C10_MalformedAnswered ==
    (srv.pc = "handled" /\ ControlLineFails(srv.req)) =>
        (Len(srv.h.errors) = 1 /\ StatusLines(srv.h.wfile) = 1)

\* the request came whole: the client never fell silent
NoStall(req) == \A i \in DOMAIN req : ~IsStall(req[i])

\* line k of the request, empty when the request ends before it
RequestLine(req, k) == IF Len(Lines(req)) >= k THEN Lines(req)[k] ELSE <<>>

\* the words of the control line
ControlWords(req) == SplitWs(LineBytes(RequestLine(req, 1)), 2)

\* the commands SimpleCMITRequestHandler has a do_ method for
KnownCommands == {PING, EXECUTE, POLL}

\* the version rule of the protocol: CMIT/<major>.<minor>, both all digits, each
\* of 1 to 3 digits, and major.minor below 2.0
VersionRule(v) ==
    /\ StartsWith(v, CMIT_PREFIX)
    /\ LET rest == SubSeq(v, Len(CMIT_PREFIX) + 1, Len(v))
           dots == {i \in DOMAIN rest : rest[i] = "."}
       IN  /\ Cardinality(dots) = 1
           /\ \E d \in dots :
                LET major == SubSeq(rest, 1, d - 1)
                    minor == SubSeq(rest, d + 1, Len(rest))
                IN  /\ Len(major) \in 1..3
                    /\ Len(minor) \in 1..3
                    /\ \A i \in DOMAIN major : IsDigit(major[i])
                    /\ \A i \in DOMAIN minor : IsDigit(minor[i])
                    /\ ToInt(major) < 2

\* a message line the codec cannot decode: no base64 JSON in it, JSON that does
\* not parse, or an object that lacks one of the four keys
Undecodable(line) ==
    LET blobs == {i \in DOMAIN line : IsB64(line[i])} IN
    \/ blobs = {}
    \/ \E i \in blobs : \/ "invalid" \in DOMAIN line[i].b64
                        \/ ~(MsgKeys \subseteq DOMAIN line[i].b64)

\* the body of the request is malformed: the separator is not exactly blank, or
\* the message line cannot be decoded
BodyMalformed(req) ==
    \/ RequestLine(req, 2) # CRLF
    \/ Undecodable(RequestLine(req, 3))

\* C11: a request with a valid control line and a known command whose separator
\* line is not exactly blank, or whose message line the codec cannot decode, gets
\* a Bad-Request (300) error and no command handler is invoked.
C11_BadBodyRejected ==
    (/\ srv.pc = "handled"
     /\ NoStall(srv.req)
     /\ srv.h.command \in KnownCommands
     /\ BodyMalformed(srv.req)) =>
        /\ srv.h.errors = <<BAD_REQUEST>>
        /\ srv.h.calls = <<>>

\* the control line is malformed: not empty, not too long, and not two words of
\* which the second is a version the rule accepts
ControlMalformed(req) ==
    /\ RequestLine(req, 1) # <<>>
    /\ StreamLen(RequestLine(req, 1)) <= MAXLINE
    /\ ~(Len(ControlWords(req)) = 2 /\ VersionRule(ControlWords(req)[2]))

\* C12: handle_one_request returns normally for every malformed control line and
\* every malformed body: no exception leaves it.
C12_NoCrash ==
    (/\ srv.pc = "handled"
     /\ NoStall(srv.req)
     /\ \/ ControlMalformed(srv.req)
        \/ srv.h.command \in KnownCommands /\ BodyMalformed(srv.req)) =>
        srv.h.exc = "none"

C14_VersionRule ==
    (/\ srv.pc = "handled"
     /\ NoStall(srv.req)
     /\ StreamLen(RequestLine(srv.req, 1)) <= MAXLINE
     /\ Len(ControlWords(srv.req)) = 2) =>
        LET p == parse_request(NewHandler(<<>>), RequestLine(srv.req, 1))
            accepted == p.exc = "none" /\ p.ret = "True"
        IN  /\ accepted <=> VersionRule(ControlWords(srv.req)[2])
            /\ accepted => /\ srv.h.command = ControlWords(srv.req)[1]
                           /\ srv.h.request_version = ControlWords(srv.req)[2]
            /\ ~accepted => /\ p.errors = <<BAD_REQUEST>>
                            /\ srv.h.errors = <<BAD_REQUEST>>
                            /\ srv.h.command = <<>>
                            /\ srv.h.calls = <<>>
            /\ p.close_connection

\* a request with version CMIT/1.1 was accepted and its command handler ran
C14_Witness ==
    /\ srv.pc = "handled"
    /\ ControlWords(srv.req) = <<PING, <<"C", "M", "I", "T", "/", "1", ".", "1">>>>
    /\ srv.h.calls = <<PING>>

\* C16: on every connection handle() runs handle_one_request exactly once, and
\* the close flag is True when that one call ends.
C16_OneRequest ==
    srv.pc \in {"handled", "read"} =>
        /\ srv.h.requests = 1
        /\ srv.h.closes = <<TRUE>>

\* a request was answered and a second request on the connection was left unread
C16_Witness ==
    /\ srv.pc = "handled"
    /\ srv.h.calls = <<PING>>
    /\ Len(Lines(srv.h.rfile)) = 3
    /\ srv.h.requests = 1

\* line k of the reply getresponse() read from, empty when the reply ends before it
ReplyLine(k) ==
    IF Len(Lines(last.pre_held.rd)) >= k THEN Lines(last.pre_held.rd)[k] ELSE <<>>

\* the words of a status line: version, code, reason
StatusWords(line) == SplitWs(LineBytes(line), 2)

\* the code of a status line, 0 when it has none
CodeOf(line) ==
    IF Len(StatusWords(line)) >= 2 /\ AllDigits(StatusWords(line)[2])
    THEN ToInt(StatusWords(line)[2]) ELSE 0

\* C15: begin() fails with UnknownProtocol only for a final status line whose
\* version the server's version rule rejects; CMIT/1.1 is accepted.
C15_ClientVersionRule ==
    (last.op = "getresponse" /\ last.exc = "UnknownProtocol") =>
        ~VersionRule(StatusWords(ReplyLine(last.resp.interim + 1))[1])

\* a line of the reply that getresponse() reads is longer than MAXLINE bytes: the
\* status line, the separator after a final status line, or the message line
\* after an exact blank separator
ReadsLongLine ==
    \/ StreamLen(ReplyLine(1)) > MAXLINE
    \/ /\ StartsWith(LineBytes(ReplyLine(1)), StatusOK)
       /\ StreamLen(ReplyLine(1)) <= MAXLINE
       /\ \/ StreamLen(ReplyLine(2)) > MAXLINE
          \/ ReplyLine(2) = CRLF /\ StreamLen(ReplyLine(3)) > MAXLINE

\* C19: getresponse() on a reply whose status, separator or message line is
\* longer than 65536 bytes fails with LineTooLong and sets no msg; LineTooLong
\* is raised for no reply whose lines are all of 65536 bytes or fewer.
C19_TooLong ==
    (last.op = "getresponse" /\ last.pre_state = "Request-Sent" /\ ~last.pre_held.reset) =>
        /\ ReadsLongLine => last.exc = "LineTooLong" /\ last.resp.msg = NoMsg
        /\ last.exc = "LineTooLong" =>
              \E k \in DOMAIN Lines(last.pre_held.rd) : StreamLen(ReplyLine(k)) > MAXLINE

\* C20: when getresponse() succeeds, every status line begin() discarded had
\* code 100, the recorded status is the code of the line after them, and it is
\* not 100.
C20_FirstFinalStatus ==
    (last.op = "getresponse" /\ last.exc = "none") =>
        /\ \A k \in 1..last.resp.interim : CodeOf(ReplyLine(k)) = CONTINUE
        /\ CodeOf(ReplyLine(last.resp.interim + 1)) = last.resp.status
        /\ last.resp.status # CONTINUE
        /\ \A k \in 1..(last.resp.interim + 1) :
              CodeOf(ReplyLine(k)) # CONTINUE => k = last.resp.interim + 1

\* two 100 lines were discarded and 202 recorded
C20_Witness ==
    /\ last.op = "getresponse"
    /\ last.exc = "none"
    /\ last.resp.interim >= 1
    /\ last.resp.status = ACCEPTED

\* C17: for a message m built with a string or a dict payload, m() succeeds and
\* parse_message(m()) succeeds with the id, the topic and the payload of m.
C17_RoundTrip ==
    (/\ codec.given # <<>>
     /\ codec.given[2].kind \in {"str", "dict"}
     /\ codec.pc \in {"encoded", "decoded"}) =>
        /\ codec.line.exc = "none"
        /\ codec.pc = "decoded" =>
              /\ codec.out.exc = "none"
              /\ codec.out.m # NoMsg
              /\ codec.out.m.msg_id = codec.m.m.msg_id
              /\ codec.out.m.topic = codec.m.m.topic
              /\ codec.out.m.payload = codec.m.m.payload

\* C18: parse_message of a line that is not base64 JSON, or whose JSON object
\* lacks one of the four keys, raises ValueError and returns no message.
C18_FormatError ==
    (/\ codec.pc = "decoded"
     /\ codec.given = <<>>
     /\ Undecodable(codec.line.b)) =>
        /\ codec.out.exc \in ValueErrors
        /\ codec.out.m = NoMsg

-----------------------------------------------------------------------------
(* Properties of repeated calls and of the PING exchange *)

\* C21: begin() on a response whose message is already parsed reads nothing
\* more from the stream and leaves version, status, reason and msg as they were.
C21_BeginIdempotent ==
    [][last'.op = "begin" =>
          /\ last'.exc = "none"
          /\ last'.resp.fp = last.resp.fp
          /\ last'.resp.version = last.resp.version
          /\ last'.resp.status = last.resp.status
          /\ last'.resp.reason = last.resp.reason
          /\ last'.resp.msg = last.resp.msg]_vars

\* begin() was called again on a parsed response whose stream holds more bytes
C21_Witness ==
    /\ last.op = "begin"
    /\ last.resp.msg # NoMsg
    /\ last.resp.status = OK
    /\ last.resp.fp # <<>>

\* C22: close() never raises and ends with state Idle, no socket and no pending
\* response, the socket it held closed; on a connection already closed it
\* changes nothing.
C22_CloseIdempotent ==
    [][last'.op = "close" =>
          /\ last'.exc = "none"
          /\ state' = CS_IDLE
          /\ sock' = 0
          /\ response' = 0
          /\ sock # 0 => ~socks'[sock].open
          /\ (state = CS_IDLE /\ sock = 0 /\ response = 0) => socks' = socks]_vars

\* close() was called with a request sent and its socket open
C22_Witness ==
    /\ last.op = "close"
    /\ last.pre_state = CS_REQ_SENT
    /\ last.pre_sock # 0
    /\ last.pre_held.open
    /\ state = CS_IDLE
    /\ sock = 0

\* the JSON object of the request message in the bytes a request() wrote
WroteMsg(wr) == (CHOOSE e \in {wr[i] : i \in DOMAIN wr} : IsB64(e)).b64

\* the bytes are one whole PING request with a message
IsPingRequest(wr) ==
    /\ Len(Lines(wr)) = 3
    /\ Lines(wr)[1] = Line(PING \o <<" ">> \o CMIT_1_0)
    /\ \E i \in DOMAIN wr : IsB64(wr[i])

\* C28: a PING with a string payload goes out carrying the caller's topic and
\* payload, and the reply of SimpleCMITRequestHandler to it is read as status
\* 200 with a message of the same topic and payload.
C28_PingEcho ==
    /\ (/\ last.op = "request"
        /\ last.pre_state = CS_IDLE
        /\ last.pre_sock # 0
        /\ Upper(last.args[1]) = PING
        /\ last.args[3].kind = "str"
        /\ last.exc # "OSError") =>
            /\ last.exc = "none"
            /\ IsPingRequest(last.wrote)
            /\ WroteMsg(last.wrote).topic = last.args[2]
            /\ WroteMsg(last.wrote).payload = last.args[3]
    /\ (/\ last.op = "getresponse"
        /\ last.pre_state = CS_REQ_SENT
        /\ last.pre_held.answered
        /\ ~last.pre_held.reset
        /\ IsPingRequest(last.pre_held.wr)
        /\ last.pre_held.rd = handle(last.pre_held.wr).wfile) =>
            /\ last.exc = "none"
            /\ last.resp.status = OK
            /\ Utf8Decode(last.resp.msg.topic)
                  = [exc |-> "none", s |-> WroteMsg(last.pre_held.wr).topic.v]
            /\ Utf8Decode(last.resp.msg.payload)
                  = [exc |-> "none", s |-> WroteMsg(last.pre_held.wr).payload.v]

-----------------------------------------------------------------------------
(* Properties of the session and of the adapter's pool *)

\* prefix starts uri, whatever the case of either
MatchesPrefix(uri, prefix) == StartsWith(Lower(uri), Lower(prefix))

\* the entries of the routing table whose prefix matches uri
Matching(uri) == {i \in DOMAIN session.adapters : MatchesPrefix(uri, session.adapters[i].prefix)}

\* C23: whatever was mounted and in whatever order, get_adapter(uri) succeeds
\* when some mounted prefix matches uri without regard to case, and returns an
\* adapter mounted on a matching prefix that no matching prefix is longer than.
C23_LongestPrefix ==
    (session.last.op = "get_adapter" /\ Matching(session.last.uri) # {}) =>
        /\ session.last.exc = "none"
        /\ \E i \in Matching(session.last.uri) :
              /\ session.adapters[i].adapter = session.last.adapter
              /\ \A j \in Matching(session.last.uri) :
                    Len(session.adapters[j].prefix) <= Len(session.adapters[i].prefix)

\* a lookup matched a short prefix of one adapter and a longer prefix of another,
\* in another case than the locator's, and returned the adapter of the longer
C23_Witness ==
    /\ session.last.op = "get_adapter"
    /\ session.last.uri = Upper(Cmit \o <<"/", "s", "/", "x">>) \o DotSock
    /\ \E i, j \in Matching(session.last.uri) :
          /\ Len(session.adapters[i].prefix) > Len(session.adapters[j].prefix)
          /\ session.adapters[i].adapter # session.adapters[j].adapter
          /\ session.adapters[i].adapter = session.last.adapter

\* the locator a request for fp is prepared with, NoneText when preparation fails
PreparedLocator(fp) == prepare_socket_path(fp, Files).socket_path

\* C24: when no mounted prefix matches the locator, get_adapter raises
\* InvalidSchema, and a request prepared with such a locator ends in
\* InvalidSchema with no adapter dispatched to, no connection created, connected,
\* written to or read from, and every adapter's pool as it was.
C24_NoRoute ==
    [][/\ (session'.last.op = "get_adapter" /\ Matching(session'.last.uri) = {}) =>
              /\ session'.last.exc = "InvalidSchema"
              /\ session'.last.adapter = 0
       /\ (/\ session'.last.op = "ping"
           /\ PreparedLocator(session'.last.uri) # NoneText
           /\ Matching(PreparedLocator(session'.last.uri)) = {}) =>
              /\ session'.last.exc = "InvalidSchema"
              /\ session'.last.adapter = 0
              /\ session'.last.events = <<>>
              /\ session'.conns = session.conns
              /\ session'.pool = session.pool]_vars

\* a request whose target exists and is served was prepared and found no adapter
C24_Witness ==
    /\ session.last.op = "ping"
    /\ session.last.up
    /\ PreparedLocator(session.last.uri) # NoneText
    /\ session.last.exc = "InvalidSchema"

\* C25: get_connection for a target other than the pooled connection's closes
\* the pooled connection, then creates one, and leaves the new connection, on the
\* new target, as the adapter's pooled connection.
C25_PoolReplaced ==
    (/\ session.last.op = "get_connection"
     /\ session.last.exc = "none"
     /\ session.last.pre_pooled # 0
     /\ session.conns[session.last.pre_pooled].socket # session.last.target) =>
        /\ session.last.events = <<Ev("close", session.last.pre_pooled),
                                   Ev("new", session.last.conn)>>
        /\ session.conns[session.last.pre_pooled].closes = 1
        /\ session.conns[session.last.conn].socket = session.last.target
        /\ session.pool[session.last.adapter] = session.last.conn

\* C26: a get_connection that follows a get_connection on the same adapter for
\* the same resolved target returns the connection the first returned and
\* creates none.
C26_SameTargetReused ==
    [][(/\ session.last.op = "get_connection"
        /\ session.last.exc = "none"
        /\ session'.last.op = "get_connection"
        /\ session'.last.exc = "none"
        /\ session'.last.adapter = session.last.adapter
        /\ session'.last.target = session.last.target) =>
           /\ session'.last.conn = session.last.conn
           /\ session'.last.events = <<>>]_vars

\* the three documented forms of a target whose socket file exists
DocumentedForms ==
    {<<"/", "s", "/", "x">> \o DotSock, Cmit \o <<"s", "/", "x">> \o DotSock,
     <<"u", "n", "i", "x", ":", "/", "/", "s", "/", "x">> \o DotSock}

\* C27: a ping of a target given in one of the documented forms, its socket file
\* there and its server listening, is prepared, routed and answered with 200.
C27_TargetForms ==
    (/\ session.last.op = "ping"
     /\ session.last.up
     /\ session.last.uri \in DocumentedForms) =>
        /\ session.last.exc = "none"
        /\ session.last.adapter # 0
        /\ session.last.resp.status_code = OK

-----------------------------------------------------------------------------
(* Properties of the queue-backed handler *)

\* EXECUTE requests on topic handled so far
Executed(topic) == IF topic \in DOMAIN tasks.executed THEN tasks.executed[topic] ELSE 0

\* the payload of the message in the reply, as the client reads it
ReplyPayload(wfile) == Utf8Decode(begin(wfile).msg.payload).s

\* C29: a POLL on a topic, written by a client, is answered 200 with the depth
\* that is the number of EXECUTE requests on that topic handled before it,
\* whatever was requested on other topics.
C29_PollDepth ==
    (/\ tasks.last.command = POLL
     /\ tasks.last.topic \in {<<"q">>, <<"r">>}) =>
        /\ tasks.last.h.exc = "none"
        /\ begin(tasks.last.h.wfile).exc = "none"
        /\ begin(tasks.last.h.wfile).status = OK
        /\ Utf8Decode(begin(tasks.last.h.wfile).msg.topic).s = tasks.last.topic
        /\ ReplyPayload(tasks.last.h.wfile)
              = <<"{", "\"", "depth", "\"", ":", " ">>
                    \o Decimal(Executed(tasks.last.topic)) \o <<"}">>

\* a POLL on q was answered after one EXECUTE on q and two on r
C29_Witness ==
    /\ tasks.last.command = POLL
    /\ tasks.last.topic = <<"q">>
    /\ Executed(<<"q">>) = 1
    /\ Executed(<<"r">>) = 2
    /\ ReplyPayload(tasks.last.h.wfile) = <<"{", "\"", "depth", "\"", ":", " ", "1", "}">>

-----------------------------------------------------------------------------
(* Properties of the threading server *)

\* C30: however the threads interleave, a connection whose handler has ended
\* has received the bytes a server handling that request alone would send:
\* one response, and for a PING a 200 with the topic and id of its own request
\* and nothing after it.
C30_NoInterference ==
    \A c \in 1..NumThreads :
        threads.pc[c] = "done" =>
            /\ threads.h[c].exc = "none"
            /\ threads.h[c].wfile = handle(threads.req[c].rfile).wfile
            /\ threads.req[c].command = PING =>
                  /\ begin(threads.h[c].wfile).exc = "none"
                  /\ begin(threads.h[c].wfile).status = OK
                  /\ Utf8Decode(begin(threads.h[c].wfile).msg.topic).s = threads.req[c].topic
                  /\ begin(threads.h[c].wfile).msg.msg_id = threads.req[c].id
                  /\ begin(threads.h[c].wfile).fp = <<>>

\* two PINGs on different topics were handled, a thread running while the
\* other was in the middle of its request
C30_Witness ==
    /\ \A c \in 1..NumThreads : threads.pc[c] = "done"
    /\ threads.overlapped
    /\ threads.req[1].command = PING
    /\ threads.req[2].command = PING
    /\ threads.req[1].topic # threads.req[2].topic

-----------------------------------------------------------------------------
(* Properties of the payload a request carries *)

\* the text a message holds for a value given as payload: the string itself,
\* the decoded bytes, what the producer returns, json.dumps of the dict
Canonical(value) == IF value.kind = "bytes" THEN Utf8Decode(value.v).s ELSE value.v

\* C31: whenever request() has put a message on the socket, the payload of
\* that message is the canonical form of the payload the caller gave, be it a
\* string, raw bytes, a zero-argument producer or a dict.
C31_PayloadCarried ==
    (/\ last.op = "request"
     /\ \E i \in DOMAIN last.wrote : IsB64(last.wrote[i])) =>
        WroteMsg(last.wrote).payload = Str(Canonical(last.args[3]))

-----------------------------------------------------------------------------
(* Properties of the mount table *)

\* C32: after every sequence of mounts, re-mounts of a prefix that is there
\* included, no entry of the mount table comes after a strictly shorter one.
C32_MountOrder ==
    \A i, j \in DOMAIN session.adapters :
        i < j => Len(session.adapters[i].prefix) >= Len(session.adapters[j].prefix)

\* 'cmit://', mounted at construction on adapter 1, was mounted again on
\* adapter 2 after a longer prefix and another prefix of its length had been
\* mounted, and the longer prefix comes first
C32_Witness ==
    /\ session.last.op = "mount"
    /\ session.last.uri = Cmit
    /\ session.last.adapter = 2
    /\ Len(session.adapters) = 3
    /\ session.adapters[1].prefix = Cmit \o <<"/", "s", "/">>
    /\ \E i \in DOMAIN session.adapters :
          session.adapters[i] = [prefix |-> Cmit, adapter |-> 2]

-----------------------------------------------------------------------------
(* Properties of the dispatch to a command handler *)

\* C33: when a do_ method has been invoked for a request, the control line of
\* that request was a known command and a version the version rule accepts,
\* its separator line was exactly '\r\n', self.msg is the message decoded from
\* its message line, and no other do_ method was invoked for it.
C33_HandlerPreconditions ==
    (srv.pc = "handled" /\ srv.h.calls # <<>>) =>
        /\ Len(ControlWords(srv.req)) = 2
        /\ ControlWords(srv.req)[1] \in KnownCommands
        /\ VersionRule(ControlWords(srv.req)[2])
        /\ RequestLine(srv.req, 2) = CRLF
        /\ ~Undecodable(RequestLine(srv.req, 3))
        /\ CMITMessage_parse_message(RequestLine(srv.req, 3)).exc = "none"
        /\ srv.h.msg = CMITMessage_parse_message(RequestLine(srv.req, 3)).m
        /\ srv.h.calls = <<ControlWords(srv.req)[1]>>
        /\ srv.h.requests = 1

\* do_EXECUTE was invoked for a request with version CMIT/1.0 and a message
\* on topic t1
C33_Witness ==
    /\ srv.pc = "handled"
    /\ srv.h.calls = <<EXECUTE>>
    /\ ControlWords(srv.req) = <<EXECUTE, CMIT_1_0>>
    /\ srv.h.msg # NoMsg
    /\ Utf8Decode(srv.h.msg.topic).s = <<"t", "1">>

-----------------------------------------------------------------------------
(* Properties of a connection the peer closed *)

\* C34: when the read of the control line gives no bytes, handle_one_request
\* writes nothing, calls no do_ method and no send_error, sets the close flag
\* (also on a handler whose flag was not set) and raises nothing.
C34_PeerClosed ==
    (srv.pc = "handled" /\ srv.req = <<>>) =>
        /\ srv.h.exc = "none"
        /\ srv.h.wfile = <<>>
        /\ srv.h.buf = <<>>
        /\ srv.h.calls = <<>>
        /\ srv.h.errors = <<>>
        /\ srv.h.msg = NoMsg
        /\ srv.h.close_connection
        /\ srv.h.requests = 1
        /\ handle_one_request(NewHandler(srv.req))
              = [NewHandler(srv.req) EXCEPT !.close_connection = TRUE, !.requests = 1]

\* a connection on which the peer sent nothing and closed was handled
C34_Witness ==
    /\ srv.pc = "handled"
    /\ srv.req = <<>>
    /\ srv.h.closes = <<TRUE>>

-----------------------------------------------------------------------------
(* Properties of an adapter after a failed send *)

\* C35: when a send on an adapter has failed, the next send on that adapter
\* for the same target, to a server that listens on an existing socket file
\* and answers well, completes without an exception.
C35_NotWedged ==
    [][(/\ session.last.op = "send"
        /\ session.last.exc # "none"
        /\ session'.last.op = "send"
        /\ session'.last.adapter = session.last.adapter
        /\ session'.last.target = session.last.target
        /\ session'.last.target \in Files
        /\ session'.last.up
        /\ session'.last.fault = "none") => session'.last.exc = "none"]_vars

-----------------------------------------------------------------------------
(* Properties of the queue-backed handler under the threading server *)

\* the queue server.task_router holds for topic q
QueueOf(q) ==
    IF q \in DOMAIN workers.task_router THEN workers.lists[workers.task_router[q]] ELSE <<>>

\* EXECUTE requests on topic q answered so far
AnsweredOn(q) == IF q \in DOMAIN workers.answered THEN workers.answered[q] ELSE 0

\* C36: however the threads interleave, once every EXECUTE accepted has been
\* answered the queue of each topic holds as many tasks as EXECUTE requests on
\* it were answered, and a POLL handled with no other request in progress
\* reports that number as the depth.
C36_NoExecuteLost ==
    /\ (\A c \in 1..NumThreads : ~Busy(c)) =>
          \A q \in WorkerTopics : Len(QueueOf(q)) = AnsweredOn(q)
    /\ \A c \in 1..NumThreads :
          (/\ workers.pc[c] = "done"
           /\ workers.command[c] = POLL
           /\ workers.alone[c]) => workers.depth[c] = workers.before[c]

-----------------------------------------------------------------------------
(* Properties of the state a caller finds after request() *)

\* C37: when request() has returned or raised, whatever failed in it, the
\* connection is in Idle or Request-Sent, never in Request-Started.
C37_NeverStarted ==
    last.op = "request" => state \in {CS_IDLE, CS_REQ_SENT}

-----------------------------------------------------------------------------
(* Properties of the sockets a connection opens *)

\* C38: connect() is never carried out while self.sock is a socket the
\* connection opened earlier and has not closed.
C38_NoAbandon ==
    (last.op = "connect" /\ last.exc = "none") => ~last.pre_held.open

-----------------------------------------------------------------------------
(* The id of a request and of its answer *)

\* the _id of the message in the bytes a request wrote to its socket
WireId(wrote) == wrote[CHOOSE i \in DOMAIN wrote : IsB64(wrote[i])].b64.id

\* CMITAdapter.send returned a Response
Completed == session.last.op = "send" /\ session.last.exc = "none"

\* C39: when CMITAdapter.send completes an exchange with the PING, EXECUTE or POLL
\* handler, the id of the response message, the id of the message that was
\* transmitted and request.msg_id are one id, and it is the caller's id when the
\* caller gave one.
C39_IdEchoed ==
    Completed =>
        /\ session.last.resp.msg_id = WireId(session.last.wrote)
        /\ session.last.msg_id = WireId(session.last.wrote)
        /\ session.last.given \notin {NotGiven, NoneId}
               => session.last.msg_id = session.last.given

\* an EXECUTE sent under the caller's id was answered 202 under that id
C39_Witness ==
    /\ Completed
    /\ session.last.command = EXECUTE
    /\ session.last.given = "id1"
    /\ session.last.resp.status_code = ACCEPTED
    /\ session.last.resp.msg_id = "id1"

====
